---- MODULE Spec2Model ----
(***************************************************************************)
(* A model of the multi-core SDR labelling pipeline of                     *)
(* storage-proofs/porep/src/stacked/vanilla/create_label/multi.rs:         *)
(* the layer orchestrator (create_labels_for_decoding), one layer pass     *)
(* (create_layer_labels: the consumer/hashing thread) and the producer     *)
(* threads (create_label_runner, fill_buffer).                             *)
(*                                                                         *)
(* Memory is modelled at byte level.  A u32 is a tuple of its four bytes,  *)
(* most significant first; a label is eight u32 words; a ring slot is a    *)
(* sequence of BYTES_PER_NODE bytes, the byte at offset o being element    *)
(* o + 1.  The host is little-endian (the build targets x86_64), so the    *)
(* bytes of a u32 in memory are its bytes least significant first.         *)
(*                                                                         *)
(* The SHA-256 compression function is replaced by a small mixing function *)
(* of the same shape (8 state words, 64-byte blocks, every block byte      *)
(* influences the state); sizes are scaled down (see the bounds).          *)
(***************************************************************************)
EXTENDS Integers, Sequences, FiniteSets, TLC

(***************************************************************************)
(* Bounds of the model.  The shipped pass runs with lookahead 800,         *)
(* producer stride 128 and MIN_BASE_PARENT_NODE 2000 on 2^k nodes; the     *)
(* model keeps their order (stride <= lookahead <= MIN_BASE_PARENT_NODE    *)
(* < num_nodes) at a size TLC can enumerate.                               *)
(***************************************************************************)
NumNodes == 8

Lookahead == 4

ProducerStride == 2

MIN_BASE_PARENT_NODE == 4

Layers == 2

(***************************************************************************)
(* Program constants.  A pass is run with one or with NumProducers         *)
(* producer threads.                                                       *)
(***************************************************************************)
NumProducers == 2

NODE_SIZE == 32

BASE_DEGREE == 6

EXP_DEGREE == 8

DEGREE == BASE_DEGREE + EXP_DEGREE

NODE_WORDS == NODE_SIZE \div 4

BYTES_PER_NODE == (NODE_SIZE * DEGREE) + 64

Byte == 0..255

Producers == 1..NumProducers

Nodes == 0..(NumNodes - 1)

Slots == 0..(Lookahead - 1)

(***************************************************************************)
(* u32 words and byte slices.                                              *)
(***************************************************************************)
ZeroWord == <<0, 0, 0, 0>>

ZeroLabel ==
    <<ZeroWord, ZeroWord, ZeroWord, ZeroWord,
      ZeroWord, ZeroWord, ZeroWord, ZeroWord>>

ZeroBuf == [o \in 1..BYTES_PER_NODE |-> 0]

SHA256_INITIAL_DIGEST ==
    << <<106, 9, 230, 103>>, <<187, 103, 174, 133>>,
       <<60, 110, 243, 114>>, <<165, 79, 245, 58>>,
       <<81, 14, 82, 127>>, <<155, 5, 104, 140>>,
       <<31, 131, 217, 171>>, <<91, 224, 205, 25>> >>

\* 0x3FFF_FFFF
LABEL_MASK == <<63, 255, 255, 255>>

\* u32::swap_bytes
SwapBytes(w) == <<w[4], w[3], w[2], w[1]>>

\* u32::to_be on a little-endian host
ToBe(w) == SwapBytes(w)

RECURSIVE BitAnd(_, _)
BitAnd(a, b) ==
    IF a = 0 \/ b = 0 THEN 0
    ELSE ((a % 2) * (b % 2)) + 2 * BitAnd(a \div 2, b \div 2)

\* x & m on u32
AndWord(w, m) ==
    <<BitAnd(w[1], m[1]), BitAnd(w[2], m[2]),
      BitAnd(w[3], m[3]), BitAnd(w[4], m[4])>>

\* The bytes of a u32 in memory on a little-endian host
LeBytes(w) == <<w[4], w[3], w[2], w[1]>>

\* <[u32]>::as_byte_slice: the memory of a word array as bytes
RECURSIVE AsByteSlice(_)
AsByteSlice(words) ==
    IF words = <<>> THEN <<>>
    ELSE LeBytes(Head(words)) \o AsByteSlice(Tail(words))

\* A faulty byte order: the low byte first
RECURSIVE ToBeBytes_Le(_, _)
ToBeBytes_Le(n, len) ==
    IF len = 0 THEN <<>> ELSE <<n % 256>> \o ToBeBytes_Le(n \div 256, len - 1)

\* u64::to_be_bytes (len = 8), also used for a u32 (len = 4)
RECURSIVE ToBeBytes(_, _)
ToBeBytes(n, len) ==
    IF len = 0 THEN <<>> ELSE Append(ToBeBytes(n \div 256, len - 1), n % 256)

\* buf[a..a + src.len()].copy_from_slice(src)
\* (buf and src are bound by a quantifier, so that each is evaluated once)
CopyFromSlice(buf, a, src) ==
    CHOOSE r \in {SubSeq(b, 1, a) \o s \o SubSeq(b, a + Len(s) + 1, Len(b)) :
                     b \in {buf}, s \in {src}} : TRUE

(***************************************************************************)
(* compress256!(state, buf, n): n 64-byte blocks of buf, from offset base, *)
(* are compressed into the 8-word state.  Stand-in for sha2::compress256.  *)
(***************************************************************************)
\* Byte j (1..4) of word t (0..15) of the block at offset base
BlockByte(buf, base, t, j) == buf[base + 4 * t + j]

MixByte(state, buf, base, w, j) ==
    (3 * state[w][j] + state[(w % 8) + 1][(j % 4) + 1]
       + BlockByte(buf, base, w - 1, j)
       + 5 * BlockByte(buf, base, w + 7, (j % 4) + 1)
       + w + j) % 256

MixWord(state, buf, base, w) ==
    <<MixByte(state, buf, base, w, 1), MixByte(state, buf, base, w, 2),
      MixByte(state, buf, base, w, 3), MixByte(state, buf, base, w, 4)>>

CompressBlock(state, buf, base) ==
    CHOOSE r \in
        {<<MixWord(st, b, base, 1), MixWord(st, b, base, 2),
           MixWord(st, b, base, 3), MixWord(st, b, base, 4),
           MixWord(st, b, base, 5), MixWord(st, b, base, 6),
           MixWord(st, b, base, 7), MixWord(st, b, base, 8)>> :
            st \in {state}, b \in {buf}} : TRUE

\* (the state after each block is bound by a quantifier, so that it is
\* evaluated once before the next block is compressed)
RECURSIVE Compress256(_, _, _, _)
Compress256(state, buf, base, n) ==
    IF n = 0 THEN state
    ELSE CHOOSE r \in {Compress256(s, buf, base + 64, n - 1) :
                           s \in {CompressBlock(state, buf, base)}} : TRUE

(***************************************************************************)
(* BitMask (a u32 used as a set of bit positions).                         *)
(***************************************************************************)
Pow2(n) == 2 ^ n

BitMaskGet(m, b) == ((m \div Pow2(b)) % 2) = 1

BitMaskSet(m, b) == IF BitMaskGet(m, b) THEN m ELSE m + Pow2(b)

BitMaskSetUpto(m, n) == (m - (m % Pow2(n))) + (Pow2(n) - 1)

(***************************************************************************)
(* Inputs: replica id and parent cache.                                    *)
(***************************************************************************)
ReplicaId == [j \in 1..NODE_SIZE |-> 9]

\* The parent cache record of node v: DEGREE u32 node indices, base parents
\* first.  Base parents precede v, the last one is v - 1; node 0 lists 0.
ParentCache(off) ==
    LET v == off \div DEGREE
        pos == off % DEGREE
    IN  IF v = 0 THEN 0
        ELSE IF pos = BASE_DEGREE - 1 THEN v - 1
        ELSE IF pos < BASE_DEGREE THEN (2 * pos + 1) % v
        ELSE (3 * v + pos) % NumNodes

\* prepare_block(replica_id, cur_layer, buf): the fixed part of the
\* preimage, "replica_id || cur_layer" as create_layer_labels has it
\* ("Calculate node 0 .. Which is replica_id || cur_layer || 0"); the node
\* index follows at buf[36..44], so the layer takes bytes 32..35
PrepareBlock(replica_id, layer, buf) ==
    CopyFromSlice(CopyFromSlice(buf, 0, replica_id), 32, ToBeBytes(layer, 4))

(***************************************************************************)
(* State.                                                                  *)
(*  orchestrator : opc, layer, labels, reset_calls, layer_labels,          *)
(*                 exp_labels, num_producers                               *)
(*  one pass     : the three atomic cursors, ring_buf, base_parent_missing *)
(*  producer p   : ppc, work, count, cur_node, k                           *)
(*  consumer     : cpc, i, producer_val, ready_count, cur_slot,            *)
(*                 cur_parent_ptr_offset                                   *)
(*  finalized is a history variable: the nodes whose label the consumer    *)
(*  has finalized in this pass, in the order it finalized them.            *)
(***************************************************************************)
VARIABLES opc, layer, labels, reset_calls, layer_labels, exp_labels,
          num_producers, cur_consumer, cur_producer, cur_awaiting,
          ring_buf, base_parent_missing, ppc, work, count, cur_node, k,
          cpc, i, producer_val, ready_count, cur_slot,
          cur_parent_ptr_offset, finalized

orch_vars == <<opc, layer, labels, reset_calls, exp_labels, num_producers>>

prod_vars == <<ppc, work, count, cur_node, k>>

cons_vars == <<cpc, i, producer_val, ready_count, cur_slot,
               cur_parent_ptr_offset, finalized>>

pipe_vars == <<opc, layer, labels, reset_calls, layer_labels, exp_labels,
          num_producers, cur_consumer, cur_producer, cur_awaiting,
          ring_buf, base_parent_missing, ppc, work, count, cur_node, k,
          cpc, i, producer_val, ready_count, cur_slot,
          cur_parent_ptr_offset, finalized>>

\* The ring slot of a node (node 0 uses none)
SlotOf(v) == (v - 1) % Lookahead

\* Some(exp_labels) is passed for every layer but the first
HasExpLabels == layer # 1

(***************************************************************************)
(* The other entry points the properties are about keep their state in     *)
(* variables of their own; each specification runs one of them and leaves  *)
(* the others idle.                                                        *)
(*  hash_prefix (nse/vanilla/labels.rs): hp_pc, hp_in, hp_out, two calls   *)
(*  encode_with_trees, decode (nse/vanilla/labels.rs): nse_pc, nse_cfg,    *)
(*    nse_window, nse_data, nse_prev, nse_cur, nse_layer,                  *)
(*    nse_store_configs, nse_trees, nse_replica_tree; nse_gpu is the state *)
(*    of encode_with_oct_lc_poseidon_trees_gpu, whose inputs are the runs' *)
(*    data, each with its own store configs (the second input has one     *)
(*    config fewer than the first); nse_sched is a                         *)
(*    history variable, the layers computed by the call in progress, in    *)
(*    order, each with its index, its layer_in and its output; nse_plain   *)
(*    is a                                                                 *)
(*    history variable, the data before encoding.  Two runs on the same    *)
(*    config, window and replica id are carried side by side (a pair per   *)
(*    buffer), so that runs that differ in the data can be compared.       *)
(*  extract_all, extract (stacked/porep.rs): ex_pc, ex_wsn (the window     *)
(*    size in nodes), ex_data (the sealed sector), ex_node, ex_all and     *)
(*    ex_w (the buffer and the window loop of extract_all), ex_window,     *)
(*    ex_window_index, ex_out (extract)                                    *)
(*  seal, verify_seal (filecoin-proofs/src/api.rs): seal_pc, seal_env (the *)
(*    outcome of every fallible call the run will make), seal_success (the *)
(*    field of the FileCleanup guard), seal_file (what is at out_path),    *)
(*    seal_verified (what verify_seal returned), seal_result               *)
(*  the cursors of one layer pass with any stride, lookahead, number of    *)
(*    nodes and number of producers (create_label/multi.rs): sy_cfg, the    *)
(*    three atomics sy_cur_consumer, sy_cur_producer, sy_cur_awaiting, the  *)
(*    producers' sy_ppc, sy_work, sy_count, sy_cur_node, the consumer's     *)
(*    sy_cpc, sy_i, sy_ready_count, and sy_opc for the caller; sy_claims    *)
(*    (the strides claimed) and sy_prefills (how often each node was        *)
(*    prefilled) are history variables                                      *)
(*  one call of a layer function (nse/vanilla/labels.rs): lc_pc, lc_call   *)
(*    (the function and its arguments, with the buffer as it was handed    *)
(*    over), lc_out (the layer_out or data buffer), lc_res                 *)
(***************************************************************************)
VARIABLES hp_pc, hp_in, hp_out,
          nse_pc, nse_cfg, nse_window, nse_plain, nse_data, nse_prev,
          nse_cur, nse_layer, nse_store_configs, nse_trees,
          nse_replica_tree, nse_sched, nse_gpu,
          ex_pc, ex_wsn, ex_data, ex_node, ex_all, ex_w, ex_window,
          ex_window_index, ex_out,
          lc_pc, lc_call, lc_out, lc_res,
          sy_opc, sy_cfg, sy_cur_consumer, sy_cur_producer, sy_cur_awaiting,
          sy_ppc, sy_work, sy_count, sy_cur_node, sy_cpc, sy_i,
          sy_ready_count, sy_claims, sy_prefills,
          seal_pc, seal_env, seal_success, seal_file, seal_verified,
          seal_result

(***************************************************************************)
(* State of the machines of the resumption of create_labels_for_encoding   *)
(* (rs_), of the parameters of a proof (params.rs) and of the parameter    *)
(* cache (parameter_cache.rs).                                             *)
(***************************************************************************)
VARIABLES rs_pc, rs_layer_states, rs_read_fails, rs_layer, rs_labels,
          rs_layer_labels, rs_exp_labels, rs_disk, rs_used, rs_res,
          pp_pc, pp_fn, pp_arg, pp_res,
          ch_ppc, ch_kind, ch_dir, ch_entry, ch_content, ch_holders,
          ch_res

hp_vars == <<hp_pc, hp_in, hp_out>>

HpIdle ==
    /\ hp_pc = <<"idle", "idle">>
    /\ hp_in = <<<<0, 0>>, <<0, 0>>>>
    /\ hp_out = <<<<>>, <<>>>>

nse_vars == <<nse_pc, nse_cfg, nse_window, nse_plain, nse_data, nse_prev,
              nse_cur, nse_layer, nse_store_configs, nse_trees,
              nse_replica_tree, nse_sched, nse_gpu>>

NseIdle ==
    /\ nse_pc = "idle"
    /\ nse_cfg = [exp |-> 1, bfly |-> 1]
    /\ nse_window = 0
    /\ nse_plain = <<<<>>, <<>>>>
    /\ nse_data = <<<<>>, <<>>>>
    /\ nse_prev = <<<<>>, <<>>>>
    /\ nse_cur = <<<<>>, <<>>>>
    /\ nse_layer = 0
    /\ nse_store_configs = <<>>
    /\ nse_trees = <<<<>>, <<>>>>
    /\ nse_replica_tree = <<<<>>, <<>>>>
    /\ nse_sched = <<>>
    /\ nse_gpu = <<>>

ex_vars == <<ex_pc, ex_wsn, ex_data, ex_node, ex_all, ex_w, ex_window,
             ex_window_index, ex_out>>

ExIdle ==
    /\ ex_pc = "idle"
    /\ ex_wsn = 1
    /\ ex_data = <<>>
    /\ ex_node = 0
    /\ ex_all = <<>>
    /\ ex_w = 0
    /\ ex_window = <<>>
    /\ ex_window_index = 0
    /\ ex_out = <<>>

seal_vars == <<seal_pc, seal_env, seal_success, seal_file, seal_verified,
               seal_result>>

SealIdle ==
    /\ seal_pc = "idle"
    /\ seal_env = <<>>
    /\ seal_success = FALSE
    /\ seal_file = "absent"
    /\ seal_verified = "none"
    /\ seal_result = "none"

lc_vars == <<lc_pc, lc_call, lc_out, lc_res>>

LcIdle ==
    /\ lc_pc = "idle"
    /\ lc_call = <<>>
    /\ lc_out = <<>>
    /\ lc_res = "none"

sy_vars == <<sy_opc, sy_cfg, sy_cur_consumer, sy_cur_producer,
             sy_cur_awaiting, sy_ppc, sy_work, sy_count, sy_cur_node, sy_cpc,
             sy_i, sy_ready_count, sy_claims, sy_prefills>>

SyIdle ==
    /\ sy_opc = "idle"
    /\ sy_cfg = <<>>
    /\ sy_cur_consumer = 0
    /\ sy_cur_producer = 0
    /\ sy_cur_awaiting = 1
    /\ sy_ppc = <<>>
    /\ sy_work = <<>>
    /\ sy_count = <<>>
    /\ sy_cur_node = <<>>
    /\ sy_cpc = "idle"
    /\ sy_i = 0
    /\ sy_ready_count = 0
    /\ sy_claims = {}
    /\ sy_prefills = <<>>

rs_vars == <<rs_pc, rs_layer_states, rs_read_fails, rs_layer, rs_labels,
             rs_layer_labels, rs_exp_labels, rs_disk, rs_used, rs_res>>

RsIdle ==
    /\ rs_pc = "idle"
    /\ rs_layer_states = <<>>
    /\ rs_read_fails = 0
    /\ rs_layer = 1
    /\ rs_labels = <<>>
    /\ rs_layer_labels = <<>>
    /\ rs_exp_labels = <<>>
    /\ rs_disk = <<>>
    /\ rs_used = <<>>
    /\ rs_res = "none"

pp_vars == <<pp_pc, pp_fn, pp_arg, pp_res>>

PpIdle ==
    /\ pp_pc = "idle"
    /\ pp_fn = "none"
    /\ pp_arg = <<>>
    /\ pp_res = <<>>

ch_vars == <<ch_ppc, ch_kind, ch_dir, ch_entry, ch_content, ch_holders,
             ch_res>>

ChIdle ==
    /\ ch_ppc = <<>>
    /\ ch_kind = "none"
    /\ ch_dir = "absent"
    /\ ch_entry = "absent"
    /\ ch_content = <<>>
    /\ ch_holders = {}
    /\ ch_res = <<>>

ext_vars == <<rs_vars, pp_vars, ch_vars>>

ExtIdle == RsIdle /\ PpIdle /\ ChIdle

base_vars == <<pipe_vars, hp_vars, nse_vars, ex_vars, seal_vars, lc_vars,
               sy_vars>>

aux_vars == <<hp_vars, nse_vars, ex_vars, seal_vars, lc_vars, sy_vars,
              ext_vars>>

AuxIdle ==
    HpIdle /\ NseIdle /\ ExIdle /\ SealIdle /\ LcIdle /\ SyIdle /\ ExtIdle

vars == <<pipe_vars, aux_vars>>

PipelineInit ==
    /\ opc = "start"
    /\ layer = 1
    /\ labels = <<>>
    /\ reset_calls = <<>>
    /\ layer_labels = [v \in Nodes |-> ZeroLabel]
    /\ exp_labels = [v \in Nodes |-> ZeroLabel]
    /\ num_producers \in 1..NumProducers
    /\ cur_consumer = 0
    /\ cur_producer = 0
    /\ cur_awaiting = 1
    /\ ring_buf = [s \in Slots |-> ZeroBuf]
    /\ base_parent_missing = [s \in Slots |-> 0]
    /\ ppc = [p \in Producers |-> "none"]
    /\ work = [p \in Producers |-> 0]
    /\ count = [p \in Producers |-> 0]
    /\ cur_node = [p \in Producers |-> 0]
    /\ k = [p \in Producers |-> 0]
    /\ cpc = "idle"
    /\ i = 0
    /\ producer_val = 0
    /\ ready_count = 0
    /\ cur_slot = 0
    /\ cur_parent_ptr_offset = 0
    /\ finalized = <<>>

Init == PipelineInit /\ AuxIdle

(***************************************************************************)
(* create_labels_for_decoding, loop head, and the set-up of                *)
(* create_layer_labels up to the spawning of the producers.                *)
(***************************************************************************)
LayerStart ==
    /\ opc = "start"
    /\ opc' = "pass"
    /\ reset_calls' = IF Layers # 1 THEN Append(reset_calls, "finish_reset")
                      ELSE reset_calls
    /\ ring_buf' = [s \in Slots |-> PrepareBlock(ReplicaId, layer, ZeroBuf)]
    /\ base_parent_missing' = [s \in Slots |-> 0]
    /\ cur_consumer' = 0
    /\ cur_producer' = 0
    /\ cur_awaiting' = 1
    /\ ppc' = [p \in Producers |->
                  IF p <= num_producers THEN "claim" ELSE "none"]
    /\ work' = [p \in Producers |-> 0]
    /\ count' = [p \in Producers |-> 0]
    /\ cur_node' = [p \in Producers |-> 0]
    /\ k' = [p \in Producers |-> 0]
    /\ cpc' = "node0"
    /\ i' = 0
    /\ producer_val' = 0
    /\ ready_count' = 0
    /\ cur_slot' = 0
    /\ cur_parent_ptr_offset' = DEGREE
    /\ finalized' = <<>>
    /\ UNCHANGED aux_vars
    /\ UNCHANGED <<layer, labels, layer_labels, exp_labels, num_producers>>

(***************************************************************************)
(* create_label_runner                                                     *)
(***************************************************************************)
\* let count = if work + stride > num_nodes { num_nodes - work } else { stride }
StrideCount(w) ==
    IF w + ProducerStride > NumNodes THEN NumNodes - w ELSE ProducerStride

\* let work = cur_awaiting.fetch_add(stride); break / count
Claim(p) ==
    /\ opc = "pass"
    /\ ppc[p] = "claim"
    /\ cur_awaiting' = cur_awaiting + ProducerStride
    /\ work' = [work EXCEPT ![p] = cur_awaiting]
    /\ IF cur_awaiting >= NumNodes
       THEN /\ ppc' = [ppc EXCEPT ![p] = "done"]
            /\ UNCHANGED <<count, cur_node>>
       ELSE /\ ppc' = [ppc EXCEPT ![p] = "wait"]
            /\ count' = [count EXCEPT ![p] = StrideCount(cur_awaiting)]
            /\ cur_node' = [cur_node EXCEPT ![p] = cur_awaiting]
    /\ UNCHANGED aux_vars
    /\ UNCHANGED <<orch_vars, cons_vars, layer_labels, cur_consumer,
                   cur_producer, ring_buf, base_parent_missing, k>>

\* A faulty back-pressure test: the window taken one node too wide
SlotFree_OffByOne(node, consumer) == ~(node > consumer + Lookahead)

\* The exit condition of the back-pressure loop
SlotFree(node, consumer) == ~(node > consumer + Lookahead - 1)

\* while cur_node > cur_consumer.load() + lookahead - 1 { sleep }
WaitSlot(p) ==
    /\ opc = "pass"
    /\ ppc[p] = "wait"
    /\ SlotFree(cur_node[p], cur_consumer)
    /\ ppc' = [ppc EXCEPT ![p] = "fill"]
    /\ UNCHANGED aux_vars
    /\ UNCHANGED <<orch_vars, cons_vars, layer_labels, cur_consumer,
                   cur_producer, cur_awaiting, ring_buf,
                   base_parent_missing, work, count, cur_node, k>>

\* The end of the body of `for cur_node in work..work + count`
NextNode(p) ==
    /\ cur_node' = [cur_node EXCEPT ![p] = @ + 1]
    /\ ppc' = [ppc EXCEPT ![p] =
          IF cur_node[p] + 1 < work[p] + count[p] THEN "wait" ELSE "barrier"]

\* A faulty marking: set_upto that leaves out the last base parent
PrefillMask_SkipLast(bpm, v) ==
    IF v > MIN_BASE_PARENT_NODE THEN BitMaskSet(bpm, 5)
    ELSE BitMaskSetUpto(bpm, BASE_DEGREE - 1)

\* A faulty marking: the mask of the slot is started afresh for each node
PrefillMask_Fresh(bpm, v) ==
    IF v > MIN_BASE_PARENT_NODE THEN BitMaskSet(0, 5)
    ELSE BitMaskSetUpto(0, BASE_DEGREE)

\* The mask of the slot after the marking of the parents that fill_buffer
\* never copies: parent 5 past MIN_BASE_PARENT_NODE, all six up to it
PrefillMask(bpm, v) ==
    IF v > MIN_BASE_PARENT_NODE THEN BitMaskSet(bpm, 5)
    ELSE BitMaskSetUpto(bpm, BASE_DEGREE)

\* fill_buffer, up to the loop over the base parents
FillPrefix(p) ==
    LET v == cur_node[p]
        s == SlotOf(v)
        buf == CopyFromSlice(ring_buf[s], 36, ToBeBytes(v, 8))
    IN  /\ opc = "pass"
        /\ ppc[p] = "fill"
        /\ ring_buf' = [ring_buf EXCEPT ![s] = buf]
        /\ layer_labels' = [layer_labels EXCEPT ![v] =
              Compress256(SHA256_INITIAL_DIGEST, buf, 0, 1)]
        /\ base_parent_missing' =
              [base_parent_missing EXCEPT ![s] = PrefillMask(@, v)]
        /\ ppc' = [ppc EXCEPT ![p] =
              IF v > MIN_BASE_PARENT_NODE THEN "base" ELSE "exp"]
        /\ k' = [k EXCEPT ![p] = 0]
        /\ UNCHANGED aux_vars
        /\ UNCHANGED <<orch_vars, cons_vars, cur_consumer, cur_producer,
                       cur_awaiting, work, count, cur_node>>

\* A faulty test: the node the consumer is working on counts as ready
ParentReady_OffByOne(parent, consumer) == ~(parent > consumer)

\* A base parent is copied early when it is below the consumer's cursor
ParentReady(parent, consumer) == ~(parent >= consumer)

\* fill_buffer, one iteration of `for k in 0..BASE_DEGREE - 1`
FillBase(p) ==
    LET v == cur_node[p]
        s == SlotOf(v)
        parent == ParentCache(v * DEGREE + k[p])
        a == 64 + (NODE_SIZE * k[p])
    IN  /\ opc = "pass"
        /\ ppc[p] = "base"
        /\ IF ParentReady(parent, cur_consumer)
           THEN /\ ring_buf' = [ring_buf EXCEPT ![s] =
                      CopyFromSlice(@, a, AsByteSlice(layer_labels[parent]))]
                /\ UNCHANGED base_parent_missing
           ELSE /\ base_parent_missing' =
                      [base_parent_missing EXCEPT ![s] = BitMaskSet(@, k[p])]
                /\ UNCHANGED ring_buf
        /\ k' = [k EXCEPT ![p] = @ + 1]
        /\ ppc' = [ppc EXCEPT ![p] =
              IF k[p] + 1 < BASE_DEGREE - 1 THEN "base" ELSE "exp"]
        /\ UNCHANGED aux_vars
        /\ UNCHANGED <<orch_vars, cons_vars, layer_labels, cur_consumer,
                       cur_producer, cur_awaiting, work, count, cur_node>>

\* The expander parents of node v copied into buf, positions from..DEGREE-1
RECURSIVE CopyExpParents(_, _, _)
CopyExpParents(buf, v, from) ==
    IF from >= DEGREE THEN buf
    ELSE CopyExpParents(
            CopyFromSlice(buf, 64 + (NODE_SIZE * from),
                          AsByteSlice(exp_labels[ParentCache(v * DEGREE + from)])),
            v, from + 1)

\* fill_buffer, `if let Some(exp_labels)`, and the end of the loop body
FillExp(p) ==
    LET v == cur_node[p]
        s == SlotOf(v)
    IN  /\ opc = "pass"
        /\ ppc[p] = "exp"
        /\ ring_buf' = IF HasExpLabels
                       THEN [ring_buf EXCEPT ![s] =
                                CopyExpParents(@, v, BASE_DEGREE)]
                       ELSE ring_buf
        /\ NextNode(p)
        /\ UNCHANGED aux_vars
        /\ UNCHANGED <<orch_vars, cons_vars, layer_labels, cur_consumer,
                       cur_producer, cur_awaiting, base_parent_missing,
                       work, count, k>>

\* A faulty barrier: a producer publishes without waiting for the strides
\* before its own
MayPublish_NoBarrier(w, producer) == TRUE

\* A faulty barrier: the wait written as `work > cur_producer`
MayPublish_Strict(w, producer) == ~(w > producer)

\* The exit condition of the ordering barrier
MayPublish(w, producer) == ~(w > producer + 1)

\* while work > cur_producer.load() + 1 { sleep }
BarrierWait(p) ==
    /\ opc = "pass"
    /\ ppc[p] = "barrier"
    /\ MayPublish(work[p], cur_producer)
    /\ ppc' = [ppc EXCEPT ![p] = "publish"]
    /\ UNCHANGED aux_vars
    /\ UNCHANGED <<orch_vars, cons_vars, layer_labels, cur_consumer,
                   cur_producer, cur_awaiting, ring_buf,
                   base_parent_missing, work, count, cur_node, k>>

\* cur_producer.fetch_add(count)
Publish(p) ==
    /\ opc = "pass"
    /\ ppc[p] = "publish"
    /\ cur_producer' = cur_producer + count[p]
    /\ ppc' = [ppc EXCEPT ![p] = "claim"]
    /\ UNCHANGED aux_vars
    /\ UNCHANGED <<orch_vars, cons_vars, layer_labels, cur_consumer,
                   cur_awaiting, ring_buf, base_parent_missing, work,
                   count, cur_node, k>>

(***************************************************************************)
(* create_layer_labels: the consumer (hashing) thread                      *)
(***************************************************************************)
\* A faulty finalization: the mask applied to the low end of word 7
FinalizeLabel_MaskLowByte(words) ==
    <<ToBe(words[1]), ToBe(words[2]), ToBe(words[3]), ToBe(words[4]),
      ToBe(words[5]), ToBe(words[6]), ToBe(words[7]),
      AndWord(ToBe(words[8]), <<255, 255, 255, 63>>)>>

\* x.to_be() on the eight state words, then word 7 &= 0x3FFF_FFFF
FinalizeLabel(words) ==
    <<ToBe(words[1]), ToBe(words[2]), ToBe(words[3]), ToBe(words[4]),
      ToBe(words[5]), ToBe(words[6]), ToBe(words[7]),
      AndWord(ToBe(words[8]), LABEL_MASK)>>

\* Node 0: prepare_block on a zeroed buffer, two blocks compressed
Node0Hash ==
    /\ opc = "pass"
    /\ cpc = "node0"
    /\ layer_labels' = [layer_labels EXCEPT ![0] =
          Compress256(SHA256_INITIAL_DIGEST,
                      PrepareBlock(ReplicaId, layer, ZeroBuf), 0, 2)]
    /\ cpc' = "fin0"
    /\ UNCHANGED aux_vars
    /\ UNCHANGED <<orch_vars, prod_vars, cur_consumer, cur_producer,
                   cur_awaiting, ring_buf, base_parent_missing, i,
                   producer_val, ready_count, cur_slot,
                   cur_parent_ptr_offset, finalized>>

\* Node 0: fix endianess, strip the last two bits
Node0Finalize ==
    /\ opc = "pass"
    /\ cpc = "fin0"
    /\ layer_labels' = [layer_labels EXCEPT ![0] = FinalizeLabel(@)]
    /\ finalized' = Append(finalized, 0)
    /\ cpc' = "store1"
    /\ UNCHANGED aux_vars
    /\ UNCHANGED <<orch_vars, prod_vars, cur_consumer, cur_producer,
                   cur_awaiting, ring_buf, base_parent_missing, i,
                   producer_val, ready_count, cur_slot,
                   cur_parent_ptr_offset>>

\* cur_slot = 0; cur_consumer.store(1); i = 1
Node0Store ==
    /\ opc = "pass"
    /\ cpc = "store1"
    /\ cur_consumer' = 1
    /\ i' = 1
    /\ cur_slot' = 0
    /\ cpc' = "wait"
    /\ UNCHANGED aux_vars
    /\ UNCHANGED <<orch_vars, prod_vars, layer_labels, cur_producer,
                   cur_awaiting, ring_buf, base_parent_missing,
                   producer_val, ready_count, cur_parent_ptr_offset,
                   finalized>>

\* A faulty wait: the consumer starts on node i once cur_producer is i - 1
ProducerReady_OffByOne(pv, node) == ~(pv + 1 < node)

\* A faulty batch size: one node more than cur_producer covers
ReadyCount_OffByOne(pv, node) == pv - node + 2

\* The exit condition of `while producer_val < i`
ProducerReady(pv, node) == ~(pv < node)

\* let ready_count = producer_val - i + 1
ReadyCount(pv, node) == pv - node + 1

\* while i < num_nodes: load cur_producer until it is >= i; ready_count
ConsWait ==
    /\ opc = "pass"
    /\ cpc = "wait"
    /\ IF i < NumNodes
       THEN /\ ProducerReady(cur_producer, i)
            /\ producer_val' = cur_producer
            /\ ready_count' = ReadyCount(cur_producer, i)
            /\ cpc' = "patch"
       ELSE /\ cpc' = "join"
            /\ UNCHANGED <<producer_val, ready_count>>
    /\ UNCHANGED aux_vars
    /\ UNCHANGED <<orch_vars, prod_vars, layer_labels, cur_consumer,
                   cur_producer, cur_awaiting, ring_buf,
                   base_parent_missing, i, cur_slot,
                   cur_parent_ptr_offset, finalized>>

\* A faulty patch loop: it stops before the last base parent
RECURSIVE PatchBaseParents_SkipLast(_, _, _, _)
PatchBaseParents_SkipLast(buf, bpm, off, kk) ==
    IF kk >= BASE_DEGREE - 1 THEN buf
    ELSE PatchBaseParents_SkipLast(
            IF BitMaskGet(bpm, kk)
            THEN CopyFromSlice(buf, 64 + (NODE_SIZE * kk),
                               AsByteSlice(layer_labels[ParentCache(off + kk)]))
            ELSE buf,
            bpm, off, kk + 1)

\* A faulty patch: the missing base parents are read from the slab of the
\* previous layer
RECURSIVE PatchBaseParents_Previous(_, _, _, _)
PatchBaseParents_Previous(buf, bpm, off, kk) ==
    IF kk >= BASE_DEGREE THEN buf
    ELSE PatchBaseParents_Previous(
            IF BitMaskGet(bpm, kk)
            THEN CopyFromSlice(buf, 64 + (NODE_SIZE * kk),
                               AsByteSlice(exp_labels[ParentCache(off + kk)]))
            ELSE buf,
            bpm, off, kk + 1)

\* The base parents whose bit is set, copied from the label slab into buf
RECURSIVE PatchBaseParents(_, _, _, _)
PatchBaseParents(buf, bpm, off, kk) ==
    IF kk >= BASE_DEGREE THEN buf
    ELSE PatchBaseParents(
            IF BitMaskGet(bpm, kk)
            THEN CopyFromSlice(buf, 64 + (NODE_SIZE * kk),
                               AsByteSlice(layer_labels[ParentCache(off + kk)]))
            ELSE buf,
            bpm, off, kk + 1)

\* A faulty advance: the expander parents are not skipped
AdvanceParentPtr_BaseOnly(off) == off + BASE_DEGREE

\* cur_parent_ptr_offset += 1 for each of the BASE_DEGREE positions, whether
\* or not its bit is set, then cur_parent_ptr_offset += EXP_DEGREE
AdvanceParentPtr(off) == off + BASE_DEGREE + EXP_DEGREE

\* for k in 0..BASE_DEGREE { patch if missing }; skip the expander parents
ConsPatch ==
    /\ opc = "pass"
    /\ cpc = "patch"
    /\ ring_buf' = [ring_buf EXCEPT ![cur_slot] =
          PatchBaseParents(@, base_parent_missing[cur_slot],
                           cur_parent_ptr_offset, 0)]
    /\ cur_parent_ptr_offset' = AdvanceParentPtr(cur_parent_ptr_offset)
    /\ cpc' = "hash"
    /\ UNCHANGED aux_vars
    /\ UNCHANGED <<orch_vars, prod_vars, layer_labels, cur_consumer,
                   cur_producer, cur_awaiting, base_parent_missing, i,
                   producer_val, ready_count, cur_slot, finalized>>

\* A faulty padding: the length is stamped one byte too low
PadBlock_StampLow(buf, a) ==
    CopyFromSlice(buf, a,
        [o \in 1..NODE_SIZE |-> IF o = 1 THEN 128 ELSE IF o = 32 THEN 39 ELSE 0])

\* memset(&mut buf[a..a + 32], 0); buf[a] = 0x80; buf[a + 30] = 0x27
PadBlock(buf, a) ==
    CopyFromSlice(buf, a,
        [o \in 1..NODE_SIZE |-> IF o = 1 THEN 128 ELSE IF o = 31 THEN 39 ELSE 0])

RECURSIVE CompressRounds(_, _, _, _)
CompressRounds(state, buf, n, rounds) ==
    IF rounds = 0 THEN state
    ELSE CHOOSE r \in {CompressRounds(s, buf, n, rounds - 1) :
                           s \in {Compress256(state, buf, 64, n)}} : TRUE

\* The shape of the hashing of a node: layer 1 compresses six times the
\* three blocks of the base parents and then one padded block; the other
\* layers compress twice the seven blocks of all parents and then five
\* blocks, the last one padded
Rounds(cur_layer) == IF cur_layer = 1 THEN 6 ELSE 2

RoundBlocks(cur_layer) == IF cur_layer = 1 THEN 3 ELSE 7

FinalBlocks(cur_layer) == IF cur_layer = 1 THEN 1 ELSE 5

\* The offset of the padding: buf[96..128] or buf[352..384]
PadOffset(cur_layer) == IF cur_layer = 1 THEN 96 ELSE 352

\* The slot after the hashing of a node (the padding is written into it)
HashedBuf(buf, cur_layer) == PadBlock(buf, PadOffset(cur_layer))

\* The hash state after the rounds over the parents and the padded round
HashNode(state, buf, cur_layer) ==
    Compress256(CompressRounds(state, buf, RoundBlocks(cur_layer),
                               Rounds(cur_layer)),
                HashedBuf(buf, cur_layer), 64, FinalBlocks(cur_layer))

\* if cur_layer == 1 { six rounds, round 7 } else { two rounds, final round }
ConsHash ==
    /\ opc = "pass"
    /\ cpc = "hash"
    /\ layer_labels' = [layer_labels EXCEPT ![i] =
          HashNode(@, ring_buf[cur_slot], layer)]
    /\ ring_buf' = [ring_buf EXCEPT ![cur_slot] = HashedBuf(@, layer)]
    /\ cpc' = "finalize"
    /\ UNCHANGED aux_vars
    /\ UNCHANGED <<orch_vars, prod_vars, cur_consumer, cur_producer,
                   cur_awaiting, base_parent_missing, i, producer_val,
                   ready_count, cur_slot, cur_parent_ptr_offset, finalized>>

\* Fix endianess, strip the last two bits
ConsFinalize ==
    /\ opc = "pass"
    /\ cpc = "finalize"
    /\ layer_labels' = [layer_labels EXCEPT ![i] = FinalizeLabel(@)]
    /\ finalized' = Append(finalized, i)
    /\ cpc' = "advance"
    /\ UNCHANGED aux_vars
    /\ UNCHANGED <<orch_vars, prod_vars, cur_consumer, cur_producer,
                   cur_awaiting, ring_buf, base_parent_missing, i,
                   producer_val, ready_count, cur_slot,
                   cur_parent_ptr_offset>>

\* cur_consumer.fetch_add(1); i += 1; cur_slot = (cur_slot + 1) % lookahead
ConsAdvance ==
    /\ opc = "pass"
    /\ cpc = "advance"
    /\ cur_consumer' = cur_consumer + 1
    /\ i' = i + 1
    /\ cur_slot' = (cur_slot + 1) % Lookahead
    /\ ready_count' = ready_count - 1
    /\ cpc' = IF ready_count - 1 > 0 THEN "patch" ELSE "wait"
    /\ UNCHANGED aux_vars
    /\ UNCHANGED <<orch_vars, prod_vars, layer_labels, cur_producer,
                   cur_awaiting, ring_buf, base_parent_missing,
                   producer_val, cur_parent_ptr_offset, finalized>>

\* for runner in runners { runner.join() }; the scope ends
ConsJoin ==
    /\ opc = "pass"
    /\ cpc = "join"
    /\ \A p \in Producers : ppc[p] \in {"done", "none"}
    /\ cpc' = "idle"
    /\ opc' = "store"
    /\ UNCHANGED aux_vars
    /\ UNCHANGED <<layer, labels, reset_calls, exp_labels, num_producers,
                   prod_vars, layer_labels, cur_consumer, cur_producer,
                   cur_awaiting, ring_buf, base_parent_missing, i,
                   producer_val, ready_count, cur_slot,
                   cur_parent_ptr_offset, finalized>>

\* A faulty hand-over: the two slabs are not swapped
SwapSlabs_None(current, previous) == <<current, previous>>

\* std::mem::swap(&mut layer_labels, &mut exp_labels)
SwapSlabs(current, previous) == <<previous, current>>

(***************************************************************************)
(* create_labels_for_decoding, after the pass: start_reset, the layer      *)
(* store, the swap of the two slabs.                                       *)
(***************************************************************************)
LayerStore ==
    /\ opc = "store"
    /\ reset_calls' = IF layer # Layers THEN Append(reset_calls, "start_reset")
                      ELSE reset_calls
    /\ labels' = Append(labels, layer_labels)
    /\ layer_labels' = SwapSlabs(layer_labels, exp_labels)[1]
    /\ exp_labels' = SwapSlabs(layer_labels, exp_labels)[2]
    /\ IF layer = Layers
       THEN opc' = "done" /\ UNCHANGED layer
       ELSE opc' = "start" /\ layer' = layer + 1
    /\ UNCHANGED aux_vars
    /\ UNCHANGED <<num_producers, prod_vars, cons_vars, cur_consumer,
                   cur_producer, cur_awaiting, ring_buf,
                   base_parent_missing>>

Next ==
    \/ LayerStart
    \/ \E p \in Producers :
          \/ Claim(p)
          \/ WaitSlot(p)
          \/ FillPrefix(p)
          \/ FillBase(p)
          \/ FillExp(p)
          \/ BarrierWait(p)
          \/ Publish(p)
    \/ Node0Hash
    \/ Node0Finalize
    \/ Node0Store
    \/ ConsWait
    \/ ConsPatch
    \/ ConsHash
    \/ ConsFinalize
    \/ ConsAdvance
    \/ ConsJoin
    \/ LayerStore

Spec == Init /\ [][Next]_vars

(***************************************************************************)
(* Derived notions used by the properties.                                 *)
(***************************************************************************)
InPass == opc = "pass"

\* Producer p has passed the back-pressure wait for cur_node[p] and has not
\* yet finished filling that node's slot
Filling(p) == InPass /\ ppc[p] \in {"fill", "base", "exp"}

\* Producer p owns a claimed stride that it has not published
HoldsStride(p) ==
    InPass /\ ppc[p] \in {"wait", "fill", "base", "exp", "barrier", "publish"}

\* The nodes that some producer has started to prefill in this pass
StartedPrefill ==
    {v \in 1..(NumNodes - 1) :
        \/ v <= cur_producer
        \/ \E p \in Producers :
              /\ HoldsStride(p)
              /\ work[p] <= v
              /\ \/ v < cur_node[p]
                 \/ v = cur_node[p] /\ Filling(p)}

\* The consumer reads or patches the slot cur_slot (for node i)
ConsumerUsesSlot == InPass /\ cpc \in {"patch", "hash"}

\* The 32 bytes of parent position pos in a slot
ParentBlock(buf, pos) ==
    SubSeq(buf, 64 + (NODE_SIZE * pos) + 1, 64 + (NODE_SIZE * (pos + 1)))

(***************************************************************************)
(* C1.  During one layer pass, for any number of producers and any         *)
(* interleaving, cur_consumer <= cur_producer + 1 <= cur_awaiting holds in *)
(* every reachable state, from the initial values 0, 0, 1 on.              *)
(***************************************************************************)
C1_CursorOrder ==
    /\ cur_consumer <= cur_producer + 1
    /\ cur_producer + 1 <= cur_awaiting

\* The consumer has caught up with the producers (cur_consumer =
\* cur_producer + 1) past the first stride while a stride is still claimed
\* and unpublished
C1_Witness ==
    /\ InPass
    /\ cur_producer >= ProducerStride
    /\ cur_consumer = cur_producer + 1
    /\ cur_producer + 1 < cur_awaiting
    /\ \E p \in Producers : Filling(p)

(***************************************************************************)
(* C3.  Every node v that a producer has started to prefill and that the   *)
(* consumer has not yet finalized satisfies v - cur_consumer < lookahead;  *)
(* a producer never writes a ring slot for a node                          *)
(* v > cur_consumer + lookahead - 1.                                       *)
(***************************************************************************)
C3_LookaheadBound ==
    InPass =>
      /\ \A v \in StartedPrefill :
            v >= cur_consumer => v - cur_consumer < Lookahead
      /\ \A p \in Producers :
            Filling(p) => ~(cur_node[p] > cur_consumer + Lookahead - 1)

\* A producer fills the farthest node the window allows while another
\* producer is held back by the back-pressure wait
C3_Witness ==
    /\ InPass
    /\ \E p \in Producers :
          /\ Filling(p)
          /\ cur_node[p] = cur_consumer + Lookahead - 1
    /\ \E q \in Producers :
          /\ ppc[q] = "wait"
          /\ cur_node[q] > cur_consumer + Lookahead - 1

(***************************************************************************)
(* C4.  Ring slot accesses are race-free: at most one producer writes a    *)
(* given slot (and its bitmask) at a time; no producer writes slot         *)
(* (v - 1) mod lookahead while the consumer still has to read or patch the *)
(* slot's previous occupant v - lookahead; the consumer reads or patches   *)
(* the slot of node v only after cur_producer >= v.                        *)
(***************************************************************************)
C4_SlotRaceFree ==
    /\ \A p, q \in Producers :
          (p # q /\ Filling(p) /\ Filling(q))
             => SlotOf(cur_node[p]) # SlotOf(cur_node[q])
    /\ \A p \in Producers :
          (Filling(p) /\ cur_node[p] > Lookahead)
             => /\ cur_node[p] - Lookahead < cur_consumer
                /\ (cur_node[p] - Lookahead) \in
                      {finalized[n] : n \in 1..Len(finalized)}
    /\ ConsumerUsesSlot
          => /\ cur_producer >= i
             /\ cur_slot = SlotOf(i)
             /\ \A p \in Producers :
                   Filling(p) => SlotOf(cur_node[p]) # cur_slot

\* Two producers fill two slots while the consumer patches a third one, and
\* one of the producers is reusing a slot
C4_Witness ==
    /\ ConsumerUsesSlot
    /\ \E p, q \in Producers :
          /\ p # q
          /\ Filling(p)
          /\ Filling(q)
          /\ cur_node[p] > Lookahead

(***************************************************************************)
(* The sequential reference: the labels of a layer computed one node after *)
(* the other, every parent label read from the slabs when the node is      *)
(* hashed.                                                                 *)
(***************************************************************************)
\* The slot of node v with its prefix and all its parents' labels
RECURSIVE RefParents(_, _, _, _, _)
RefParents(buf, v, pos, cur, prev) ==
    IF pos >= DEGREE THEN buf
    ELSE IF pos >= BASE_DEGREE /\ prev = <<>> THEN buf
    ELSE CHOOSE r \in
            {RefParents(b, v, pos + 1, cur, prev) :
                b \in {CopyFromSlice(buf, 64 + (NODE_SIZE * pos),
                          AsByteSlice(
                             IF pos < BASE_DEGREE
                             THEN cur[ParentCache(v * DEGREE + pos) + 1]
                             ELSE prev[ParentCache(v * DEGREE + pos) + 1]))}}
            : TRUE

RefPrefix(cur_layer, v) ==
    CopyFromSlice(PrepareBlock(ReplicaId, cur_layer, ZeroBuf), 36,
                  ToBeBytes(v, 8))

\* label(v) of layer cur_layer; cur holds the labels of nodes 0..v-1 of the
\* layer, prev the previous layer (<<>> for layer 1), both as sequences
RefLabel(cur_layer, v, cur, prev) ==
    IF v = 0
    THEN FinalizeLabel(
            Compress256(SHA256_INITIAL_DIGEST,
                        PrepareBlock(ReplicaId, cur_layer, ZeroBuf), 0, 2))
    ELSE CHOOSE r \in
            {FinalizeLabel(
                HashNode(Compress256(SHA256_INITIAL_DIGEST, b, 0, 1),
                         b, cur_layer)) :
                b \in {RefParents(RefPrefix(cur_layer, v), v, 0, cur, prev)}}
            : TRUE

RECURSIVE RefNodes(_, _, _)
RefNodes(cur_layer, cur, prev) ==
    IF Len(cur) >= NumNodes THEN cur
    ELSE CHOOSE r \in
            {RefNodes(cur_layer, Append(cur, l), prev) :
                l \in {RefLabel(cur_layer, Len(cur), cur, prev)}} : TRUE

\* The labels of layer l, as a sequence (node v at index v + 1)
RECURSIVE RefLayer(_)
RefLayer(l) ==
    IF l = 1 THEN RefNodes(1, <<>>, <<>>)
    ELSE CHOOSE r \in {RefNodes(l, <<>>, prev) : prev \in {RefLayer(l - 1)}}
            : TRUE

\* A label slab as a sequence
SlabSeq(slab) == [n \in 1..NumNodes |-> slab[n - 1]]

(***************************************************************************)
(* C2.  The labels a layer pass produces do not depend on scheduling: for  *)
(* every number of producers and every interleaving of producers and       *)
(* consumer, the final content of layer_labels equals the sequential       *)
(* reference label(v) = H(prefix(layer, v, replica_id), labels of v's      *)
(* parents) computed in node order.                                        *)
(***************************************************************************)
C2_LabelsDeterministic ==
    /\ opc = "store" => SlabSeq(layer_labels) = RefLayer(layer)
    /\ opc = "done" =>
          \A l \in 1..Len(labels) : SlabSeq(labels[l]) = RefLayer(l)

\* Every layer has been stored by passes run with NumProducers producers,
\* and the last label of the last layer is not that of the first layer
C2_Witness ==
    /\ opc = "done"
    /\ Len(labels) = Layers
    /\ num_producers = NumProducers
    /\ labels[Layers][NumNodes - 1] # labels[1][NumNodes - 1]

(***************************************************************************)
(* C5.  Producers publish in order: whenever cur_producer = k, the ring    *)
(* slots of all nodes 1..k that are not yet consumed are completely        *)
(* prefilled; a producer adds its stride's count to cur_producer only when *)
(* every earlier stride has been published, so cur_producer only takes the *)
(* values at stride boundaries, in increasing order.                       *)
(***************************************************************************)
\* The consumer has not yet hashed node v
NotYetHashed(v) ==
    \/ v > cur_consumer
    \/ v = cur_consumer /\ cpc \in {"wait", "patch"}

\* The slot of v holds v's prefix, its hash state is that of the prefix
\* block, the mask marks parent 5, every other base parent is marked or
\* copied, the expander parents are copied, and no producer owns v
SlotPrefilled(v) ==
    LET s == SlotOf(v)
        buf == ring_buf[s]
    IN  /\ SubSeq(buf, 37, 44) = ToBeBytes(v, 8)
        /\ layer_labels[v] = Compress256(SHA256_INITIAL_DIGEST, buf, 0, 1)
        /\ BitMaskGet(base_parent_missing[s], 5)
        /\ \A pos \in 0..(BASE_DEGREE - 2) :
              \/ BitMaskGet(base_parent_missing[s], pos)
              \/ ParentBlock(buf, pos) =
                    AsByteSlice(layer_labels[ParentCache(v * DEGREE + pos)])
        /\ HasExpLabels =>
              \A pos \in BASE_DEGREE..(DEGREE - 1) :
                 ParentBlock(buf, pos) =
                    AsByteSlice(exp_labels[ParentCache(v * DEGREE + pos)])
        /\ \A p \in Producers : HoldsStride(p) => work[p] > v

StrideBoundaries ==
    {IF n * ProducerStride > NumNodes - 1 THEN NumNodes - 1
     ELSE n * ProducerStride : n \in 0..NumNodes}

C5_PublishedState ==
    InPass =>
      /\ \A v \in 1..(NumNodes - 1) :
            (v <= cur_producer /\ NotYetHashed(v)) => SlotPrefilled(v)
      /\ \A p \in Producers :
            ppc[p] = "publish" => work[p] = cur_producer + 1
      /\ cur_producer \in StrideBoundaries

C5_PublishInOrder ==
    /\ []C5_PublishedState
    /\ [][(InPass /\ InPass') => cur_producer' >= cur_producer]_vars

\* The second stride is published and not yet consumed, a reused slot among
\* its nodes, while another producer holds the next stride
C5_Witness ==
    /\ InPass
    /\ cur_producer > Lookahead
    /\ cur_consumer < cur_producer
    /\ \E p \in Producers : ppc[p] = "barrier"

(***************************************************************************)
(* C6.  The consumer finalizes labels in strict node-index order, each     *)
(* node exactly once: label v is finalized only after labels 0..v-1 are    *)
(* finalized and only after cur_producer >= v was observed, and            *)
(* cur_consumer is incremented by exactly one after each finalized node,   *)
(* also inside the batch of ready_count nodes processed from one           *)
(* cur_producer snapshot.                                                  *)
(***************************************************************************)
C6_ConsumerState ==
    InPass =>
      /\ \A n \in 1..Len(finalized) : finalized[n] = n - 1
      /\ cur_consumer = Len(finalized)
                          - (IF cpc \in {"advance", "store1"} THEN 1 ELSE 0)
      /\ cpc \in {"patch", "hash", "finalize", "advance"} =>
            /\ i = cur_consumer
            /\ i >= 1
            /\ i <= producer_val
            /\ producer_val <= cur_producer
            /\ ready_count = producer_val - i + 1

C6_ConsumerInOrder ==
    /\ []C6_ConsumerState
    /\ [][(InPass /\ InPass') =>
            /\ cur_consumer' \in {cur_consumer, cur_consumer + 1}
            /\ finalized' # finalized =>
                  /\ finalized' = Append(finalized, cur_consumer)
                  /\ cur_consumer' = cur_consumer
            /\ cur_consumer' # cur_consumer =>
                  /\ finalized' = finalized
                  /\ finalized[Len(finalized)] = cur_consumer]_vars

\* The consumer is inside a batch: it has finalized a node and more nodes
\* of the same cur_producer snapshot are left
C6_Witness ==
    /\ InPass
    /\ cpc = "advance"
    /\ ready_count > 1
    /\ i > Lookahead

(***************************************************************************)
(* C7.  With a parent cache that lists only base parents p < v: when the   *)
(* consumer hashes node v, each of the six base-parent blocks of its slot  *)
(* holds the finalized label of the corresponding parent p, whether the    *)
(* block was copied early by a producer or patched late by the consumer;   *)
(* no block holds a partial hash state or data of the slot's previous      *)
(* occupant.                                                               *)
(***************************************************************************)
C7_BaseParentsFinal ==
    (InPass /\ cpc = "hash") =>
       \A pos \in 0..(BASE_DEGREE - 1) :
          LET parent == ParentCache(i * DEGREE + pos)
          IN  /\ parent < i
              /\ parent \in {finalized[n] : n \in 1..Len(finalized)}
              /\ ParentBlock(ring_buf[cur_slot], pos) =
                    AsByteSlice(layer_labels[parent])

\* The consumer is about to hash a node past MIN_BASE_PARENT_NODE in a
\* reused slot, whose parents are not all the same node
C7_Witness ==
    /\ InPass
    /\ cpc = "hash"
    /\ i > MIN_BASE_PARENT_NODE
    /\ i > Lookahead
    /\ ParentBlock(ring_buf[cur_slot], 0) # ParentBlock(ring_buf[cur_slot], 5)

(***************************************************************************)
(* C8.  During a layer pass the label slab has exclusive write regions     *)
(* governed by the cursors: no thread ever writes an index in              *)
(* [0, cur_consumer), and the index equal to cur_consumer is written only  *)
(* by the consumer thread (producers never write label words at that       *)
(* index).                                                                 *)
(*                                                                         *)
(* fill_buffer writes the hash state of the prefix block into              *)
(* layer_labels[cur_node], and cur_node may be cur_consumer: the statement *)
(* as it stands fails.  What holds: nothing below cur_consumer is written; *)
(* a producer writes index v only while v >= cur_consumer and              *)
(* v > cur_producer; the consumer writes index cur_consumer only, and only *)
(* once cur_producer >= cur_consumer (for node 0: before it sets           *)
(* cur_consumer to 1); so no index is written by two threads at a time.    *)
(***************************************************************************)
\* Producer p is about to write the label words of cur_node[p]
ProducerWritesLabel(p) == InPass /\ ppc[p] = "fill"

\* The consumer is about to write the label words of node i
ConsumerWritesLabel == InPass /\ cpc \in {"hash", "finalize"}

\* The statement as it stands
C8_ExclusiveWriteIndex ==
    \A p \in Producers : ProducerWritesLabel(p) => cur_node[p] > cur_consumer

C8_WriteRegionsState ==
    /\ \A p \in Producers :
          ProducerWritesLabel(p) =>
             /\ cur_node[p] >= 1
             /\ cur_node[p] >= cur_consumer
             /\ cur_node[p] > cur_producer
    /\ ConsumerWritesLabel =>
          /\ i = cur_consumer
          /\ cur_producer >= i
          /\ \A p \in Producers : ProducerWritesLabel(p) => cur_node[p] # i
    /\ (InPass /\ cpc \in {"node0", "fin0"}) => cur_consumer = 0

C8_WriteRegions ==
    /\ []C8_WriteRegionsState
    /\ [][(InPass /\ InPass') =>
            \A v \in Nodes :
               v < cur_consumer => layer_labels'[v] = layer_labels[v]]_vars

\* A producer is about to write the label words at the consumer's own
\* index while the consumer waits for it
C8_Witness ==
    /\ InPass
    /\ cpc = "wait"
    /\ \E p \in Producers :
          /\ ProducerWritesLabel(p)
          /\ cur_node[p] = cur_consumer
          /\ cur_node[p] > Lookahead

(***************************************************************************)
(* C9.  After a producer has prefilled the slot of any node v >= 1, both   *)
(* for v <= MIN_BASE_PARENT_NODE and beyond, bit 5 of                      *)
(* base_parent_missing[(v - 1) mod lookahead] is 1, so the consumer always *)
(* patches base-parent position 5 itself from the label slab before it     *)
(* hashes v.                                                               *)
(***************************************************************************)
C9_Bit5Set ==
    InPass =>
      /\ \A p \in Producers :
            ppc[p] \in {"base", "exp"} =>
               BitMaskGet(base_parent_missing[SlotOf(cur_node[p])], 5)
      /\ \A v \in StartedPrefill :
            (\A p \in Producers : ~(ppc[p] = "fill" /\ cur_node[p] = v))
               => BitMaskGet(base_parent_missing[SlotOf(v)], 5)
      /\ cpc \in {"patch", "hash"} =>
            /\ BitMaskGet(base_parent_missing[cur_slot], 5)
            /\ cpc = "hash" =>
                  ParentBlock(ring_buf[cur_slot], 5) =
                     AsByteSlice(layer_labels[i - 1])

\* A node up to MIN_BASE_PARENT_NODE is about to be patched while a
\* producer has marked a node past it
C9_Witness ==
    /\ InPass
    /\ cpc = "patch"
    /\ i <= MIN_BASE_PARENT_NODE
    /\ \E p \in Producers :
          /\ ppc[p] = "base"
          /\ cur_node[p] > MIN_BASE_PARENT_NODE

(***************************************************************************)
(* C10.  Every finalized label (node 0 and every node 1..N-1, in every     *)
(* layer) has the two most significant bits of its last byte equal to      *)
(* zero: after the eight state words are byte-swapped to big-endian,       *)
(* masking word 7 with 0x3FFFFFFF is digest[31] &= 0x3F and leaves the     *)
(* other 254 bits of the digest unchanged.                                 *)
(***************************************************************************)
\* The SHA-256 digest of a hash state: its words, big-endian, in order
DigestBytes(h) ==
    h[1] \o h[2] \o h[3] \o h[4] \o h[5] \o h[6] \o h[7] \o h[8]

\* digest[31] &= 0x3F
MaskedDigest(h) == [DigestBytes(h) EXCEPT ![NODE_SIZE] = @ % 64]

C10_FinalizedState ==
    /\ opc \in {"pass", "store"} =>
          \A n \in 1..Len(finalized) :
             AsByteSlice(layer_labels[finalized[n]])[NODE_SIZE] < 64
    /\ \A l \in 1..Len(labels) :
          \A v \in Nodes : AsByteSlice(labels[l][v])[NODE_SIZE] < 64

C10_LabelInField ==
    /\ []C10_FinalizedState
    /\ [][(InPass /\ InPass' /\ finalized' # finalized) =>
            LET v == finalized'[Len(finalized')]
            IN  AsByteSlice(layer_labels'[v]) = MaskedDigest(layer_labels[v])]_vars

\* Node 0 and a later node are finalized, in a layer past the first, and
\* the digest about to be finalized has a bit set among the two to strip
C10_Witness ==
    /\ InPass
    /\ layer > 1
    /\ cpc = "finalize"
    /\ Len(finalized) >= 2
    /\ DigestBytes(layer_labels[i])[NODE_SIZE] >= 64

(***************************************************************************)
(* The threads, and the specification with the scheduler's fairness: every *)
(* thread that can take a step eventually takes one.                       *)
(***************************************************************************)
ProducerStep(p) ==
    \/ Claim(p)
    \/ WaitSlot(p)
    \/ FillPrefix(p)
    \/ FillBase(p)
    \/ FillExp(p)
    \/ BarrierWait(p)
    \/ Publish(p)

ConsumerStep ==
    \/ Node0Hash
    \/ Node0Finalize
    \/ Node0Store
    \/ ConsWait
    \/ ConsPatch
    \/ ConsHash
    \/ ConsFinalize
    \/ ConsAdvance
    \/ ConsJoin

MainStep == LayerStart \/ LayerStore

\* The guard of each thread's next step: the conditions of its wait loops
ProducerCanStep(p) ==
    /\ InPass
    /\ \/ ppc[p] \in {"claim", "fill", "base", "exp", "publish"}
       \/ ppc[p] = "wait" /\ SlotFree(cur_node[p], cur_consumer)
       \/ ppc[p] = "barrier" /\ MayPublish(work[p], cur_producer)

ConsumerCanStep ==
    /\ InPass
    /\ \/ cpc \in {"node0", "fin0", "store1", "patch", "hash", "finalize",
                   "advance"}
       \/ cpc = "wait" /\ (i < NumNodes => ProducerReady(cur_producer, i))
       \/ cpc = "join" /\ \A p \in Producers : ppc[p] \in {"done", "none"}

MainCanStep == opc \in {"start", "store"}

\* A step of a thread seen on its position alone (ppc and k of a producer,
\* cpc and i of the consumer, opc of the main thread).  Every step of a
\* thread moves its position and nothing else does, so fairness on
\* these is fairness on ProducerStep(p), ConsumerStep and MainStep (the two
\* properties below state it); their enabledness does not need the labels.
ProducerMove(p) ==
    /\ ProducerCanStep(p)
    /\ \E pc \in {"claim", "wait", "fill", "base", "exp", "barrier",
                  "publish", "done"} :
          ppc' = [ppc EXCEPT ![p] = pc]
    /\ \E kk \in 0..BASE_DEGREE : k' = [k EXCEPT ![p] = kk]

ConsumerMove ==
    /\ ConsumerCanStep
    /\ cpc' \in {"fin0", "store1", "wait", "patch", "hash", "finalize",
                 "advance", "join", "idle"}
    /\ i' \in {i, i + 1}

MainMove ==
    /\ MainCanStep
    /\ opc' \in {"pass", "start", "done"}

FairSpec ==
    /\ Spec
    /\ \A p \in Producers : WF_<<ppc[p], k[p]>>(ProducerMove(p))
    /\ WF_<<cpc, i>>(ConsumerMove)
    /\ WF_opc(MainMove)

\* The guards are the enabledness of the threads' steps
ThreadGuards ==
    /\ \A p \in Producers : ProducerCanStep(p) <=> ENABLED ProducerStep(p)
    /\ ConsumerCanStep <=> ENABLED ConsumerStep
    /\ MainCanStep <=> ENABLED MainStep

\* The moves are the threads' steps
ThreadMoves ==
    [][/\ \A p \in Producers :
             <<ProducerMove(p)>>_<<ppc[p], k[p]>> <=> ProducerStep(p)
       /\ <<ConsumerMove>>_<<cpc, i>> <=> ConsumerStep
       /\ <<MainMove>>_opc <=> MainStep]_vars

(***************************************************************************)
(* C11.  Under weak fairness of every thread, a layer pass with            *)
(* stride <= lookahead terminates: the consumer finalizes all nodes        *)
(* 0..N-1, every producer leaves its loop after claiming a stride with     *)
(* work >= N, all producers are joined, and the final cursors are          *)
(* cur_consumer = N and cur_producer = N - 1.                              *)
(***************************************************************************)
\* The pass of the current layer has ended: the scope is left
C11_PassDone ==
    /\ opc = "store"
    /\ cur_consumer = NumNodes
    /\ cur_producer = NumNodes - 1
    /\ finalized = [n \in 1..NumNodes |-> n - 1]
    /\ \A p \in Producers :
          IF p <= num_producers
          THEN ppc[p] = "done" /\ work[p] >= NumNodes
          ELSE ppc[p] = "none"

C11_PassTerminates ==
    /\ [](opc = "store" => C11_PassDone)
    /\ InPass ~> C11_PassDone

\* The pass of the last layer, run with NumProducers producers, has ended
C11_Witness ==
    /\ C11_PassDone
    /\ layer = Layers
    /\ num_producers = NumProducers
    /\ ProducerStride <= Lookahead

(***************************************************************************)
(* hash_prefix (nse/vanilla/labels.rs): the first 32 bytes of the preimage *)
(* of every NSE node.  Two calls, so that their results can be compared.   *)
(***************************************************************************)
\* The pipeline at rest, for the specifications of the other entry points
PipelineIdle == PipelineInit /\ num_producers = 1

BaseIdle ==
    /\ PipelineIdle
    /\ HpIdle
    /\ NseIdle
    /\ ExIdle
    /\ SealIdle
    /\ LcIdle
    /\ SyIdle

\* let mut prefix = [0u8; 32]
ZeroPrefix == [o \in 1..NODE_SIZE |-> 0]

\* A faulty prefix: the node index written after an 8-byte layer field
HashPrefix_WideLayer(layer_index, node_index) ==
    CopyFromSlice(CopyFromSlice(ZeroPrefix, 4, ToBeBytes(layer_index, 4)),
                  8, ToBeBytes(node_index, 8))

\* prefix[..4] = layer.to_be_bytes(); prefix[4..12] = node_index.to_be_bytes()
HashPrefix(layer_index, node_index) ==
    CopyFromSlice(CopyFromSlice(ZeroPrefix, 0, ToBeBytes(layer_index, 4)),
                  4, ToBeBytes(node_index, 8))

\* The layers (u32) and node indices (u64) the calls are made with
HpLayers == {0, 1, 2, 255, 256, 65537, 16777216, 2147483647}

HpNodes == {0, 1, 6, 255, 256, 65536, 16777217, 2147483647}

HpInit ==
    /\ PipelineIdle
    /\ ExtIdle
    /\ SyIdle
    /\ LcIdle
    /\ hp_pc = <<"call", "call">>
    /\ hp_in \in (HpLayers \X HpNodes) \X (HpLayers \X HpNodes)
    /\ hp_out = <<<<>>, <<>>>>
    /\ NseIdle
    /\ ExIdle
    /\ SealIdle

HashPrefixCall(n) ==
    /\ hp_pc[n] = "call"
    /\ hp_out' = [hp_out EXCEPT ![n] = HashPrefix(hp_in[n][1], hp_in[n][2])]
    /\ hp_pc' = [hp_pc EXCEPT ![n] = "ret"]
    /\ UNCHANGED <<pipe_vars, hp_in, nse_vars, ex_vars, seal_vars, lc_vars,
                   sy_vars, ext_vars>>

HpNext == \E n \in 1..2 : HashPrefixCall(n)

HpSpec == HpInit /\ [][HpNext]_vars

(***************************************************************************)
(* C14.  For every layer and node_index, hash_prefix returns 32 bytes      *)
(* whose bytes 0..3 are the layer big-endian, bytes 4..11 the node index   *)
(* big-endian and bytes 12..31 zero; hence hash_prefix(0, 0) is all zero,  *)
(* hash_prefix(1, 6) is 00 00 00 01 | 00 00 00 00 00 00 00 06 | 20 zero    *)
(* bytes, and distinct (layer, node_index) pairs give distinct prefixes.   *)
(***************************************************************************)
\* The number a byte string denotes, most significant byte first
RECURSIVE BeValue(_)
BeValue(bytes) ==
    IF bytes = <<>> THEN 0
    ELSE 256 * BeValue(SubSeq(bytes, 1, Len(bytes) - 1)) + bytes[Len(bytes)]

C14_PrefixLayout ==
    /\ \A n \in 1..2 :
          hp_pc[n] = "ret" =>
             /\ Len(hp_out[n]) = 32
             /\ \A o \in 1..32 : hp_out[n][o] \in Byte
             /\ BeValue(SubSeq(hp_out[n], 1, 4)) = hp_in[n][1]
             /\ BeValue(SubSeq(hp_out[n], 5, 12)) = hp_in[n][2]
             /\ \A o \in 13..32 : hp_out[n][o] = 0
             /\ hp_in[n] = <<0, 0>> => hp_out[n] = [o \in 1..32 |-> 0]
             /\ hp_in[n] = <<1, 6>> =>
                   hp_out[n] = <<0, 0, 0, 1, 0, 0, 0, 0, 0, 0, 0, 6,
                                 0, 0, 0, 0, 0, 0, 0, 0, 0, 0, 0, 0, 0, 0,
                                 0, 0, 0, 0, 0, 0>>
    /\ (hp_pc = <<"ret", "ret">> /\ hp_in[1] # hp_in[2]) =>
          hp_out[1] # hp_out[2]

\* hash_prefix(1, 6) has returned, and so has a call with the same layer
\* and a node index that differs from 6 in the third byte only
C14_Witness ==
    /\ hp_pc = <<"ret", "ret">>
    /\ hp_in[1] = <<1, 6>>
    /\ hp_in[2] = <<1, 65536>>
    /\ hp_out[2][10] = 1

(***************************************************************************)
(* NSE (nse/vanilla/labels.rs): encode_with_trees and decode on one        *)
(* window.  A node is a number below NseRawRange (the 32 bytes of the      *)
(* node); it is a field element when it is below NseFieldModulus.  A layer *)
(* is the sequence of the window's nodes (node n at index n + 1).          *)
(***************************************************************************)
\* Bounds: nodes per window, and the largest layer counts of a config
NseWindowNodes == 2

MaxExpanderLayers == 2

MaxButterflyLayers == 2

\* The values of 32 bytes, the field modulus, the replica id
NseRawRange == 16

NseFieldModulus == 13

NseReplicaId == 9

Runs == 1..2

NseNodes == 0..(NseWindowNodes - 1)

\* config.num_layers()
NumLayers(cfg) == cfg.exp + cfg.bfly

\* vec![0u8; config.window_size()]
NseZeroLayer == [n \in 1..NseWindowNodes |-> 0]

\* Sha256 over the parts of the preimage (stand-in)
RECURSIVE NseSha256(_, _)
NseSha256(h, parts) ==
    IF parts = <<>> THEN h
    ELSE LET t == 5 * h + Head(parts) + 1
         IN  NseSha256((t + (t \div 4)) % NseRawRange, Tail(parts))

\* The prefix as one part of the preimage
RECURSIVE WeighBytes(_, _)
WeighBytes(bytes, o) ==
    IF o > Len(bytes) THEN 0
    ELSE ((2 * o - 1) * bytes[o] + WeighBytes(bytes, o + 1)) % NseRawRange

\* truncate_hash: the two most significant bits cleared
TruncateHash(h) == h % (NseRawRange \div 4)

\* D::try_from_bytes succeeds
IsFieldElement(v) == v < NseFieldModulus

\* encode::encode and encode::decode on field elements
EncodeOp(key, value) == (key + value) % NseFieldModulus

DecodeOp(key, value) == (value + NseFieldModulus - key) % NseFieldModulus

\* window_index * num_nodes_window + node_index
NodeAbsoluteIndex(window_index, node_index) ==
    window_index * NseWindowNodes + node_index

\* hasher.input(&[&prefix[..], replica_id])
PrefixParts(window_index, layer_index, node_index) ==
    <<WeighBytes(HashPrefix(layer_index,
                            NodeAbsoluteIndex(window_index, node_index)), 1),
      NseReplicaId>>

\* ExpanderGraph::expanded_parents, ButterflyGraph::parents (stand-ins)
ExpandedParents(node_index) ==
    <<(node_index + 1) % NseWindowNodes, (2 * node_index + 1) % NseWindowNodes>>

ButterflyParents(node_index, layer_index) ==
    <<node_index, (node_index + layer_index) % NseWindowNodes>>

\* The values of the parents in layer_in
ParentValues(parents, layer_in) ==
    [j \in 1..Len(parents) |-> layer_in[parents[j] + 1]]

\* mask_layer: one node
MaskNode(window_index, node_index) ==
    TruncateHash(NseSha256(7, PrefixParts(window_index, 1, node_index)))

MaskLayer(window_index) ==
    [n \in 1..NseWindowNodes |-> MaskNode(window_index, n - 1)]

\* expander_layer: ensure!(layer_index > 1 && layer_index <= num_expander_layers)
ExpanderLayerOk(cfg, layer_index) ==
    layer_index > 1 /\ layer_index <= cfg.exp

\* expander_layer: one node, batch_hash over the expanded parents
ExpanderNode(window_index, layer_index, layer_in, node_index) ==
    TruncateHash(NseSha256(7,
        PrefixParts(window_index, layer_index, node_index)
           \o ParentValues(ExpandedParents(node_index), layer_in)))

ExpanderLayer(window_index, layer_index, layer_in) ==
    [n \in 1..NseWindowNodes |->
        ExpanderNode(window_index, layer_index, layer_in, n - 1)]

\* A faulty check: the last expander layer is let through
ButterflyLayerOk_FromLastExpander(cfg, layer_index) ==
    layer_index >= cfg.exp /\ layer_index < cfg.exp + cfg.bfly

\* butterfly_layer: ensure!(layer_index > num_expander_layers
\*                          && layer_index < num_expander_layers + num_butterfly_layers)
ButterflyLayerOk(cfg, layer_index) ==
    layer_index > cfg.exp /\ layer_index < cfg.exp + cfg.bfly

\* butterfly_layer and the key of butterfly_encode_decode_layer: one node
ButterflyNode(window_index, layer_index, layer_in, node_index) ==
    TruncateHash(NseSha256(7,
        PrefixParts(window_index, layer_index, node_index)
           \o ParentValues(ButterflyParents(node_index, layer_index),
                           layer_in)))

ButterflyLayer(window_index, layer_index, layer_in) ==
    [n \in 1..NseWindowNodes |->
        ButterflyNode(window_index, layer_index, layer_in, n - 1)]

\* butterfly_encode_decode_layer: ensure!(layer_index == num_layers)
EncodeLayerOk(cfg, layer_index) == layer_index = cfg.exp + cfg.bfly

\* butterfly_encode_decode_layer: the loop over the nodes of data, in
\* place, from node n on; it stops at the first node that is no field
\* element.  op is "encode" or "decode".
RECURSIVE EncodeDecodeNodes(_, _, _, _, _, _)
EncodeDecodeNodes(window_index, layer_index, layer_in, data, op, n) ==
    IF n >= NseWindowNodes THEN [ok |-> TRUE, data |-> data]
    ELSE IF ~IsFieldElement(data[n + 1]) THEN [ok |-> FALSE, data |-> data]
    ELSE LET key == ButterflyNode(window_index, layer_index, layer_in, n)
             node == IF op = "encode" THEN EncodeOp(key, data[n + 1])
                     ELSE DecodeOp(key, data[n + 1])
         IN  EncodeDecodeNodes(window_index, layer_index, layer_in,
                               [data EXCEPT ![n + 1] = node], op, n + 1)

\* tree_from_slice, lc_tree_from_slice: the leaves and the config used
TreeFromSlice(data, config) == [config |-> config, leaves |-> data]

\* A faulty removal: store_configs.pop(), the last config taken
RemoveFirst_Pop(configs) ==
    <<configs[Len(configs)], SubSeq(configs, 1, Len(configs) - 1)>>

\* store_configs.remove(0): the config taken and the configs left
RemoveFirst(configs) == <<Head(configs), Tail(configs)>>

\* A faulty call: the data buffer handed to a layer as layer_in
LayerIn_Data(previous_layer, data) == data

\* The buffer handed to a layer as layer_in
LayerIn(previous_layer, data) == previous_layer

\* A faulty index: the decoding layer called with the last loop index
DecodeLayerIndex_LoopIndex(cfg) == NumLayers(cfg) - 1

\* The layer index the decoding layer is called with
DecodeLayerIndex(cfg) == NumLayers(cfg)

\* A faulty schedule: the expander loop runs up to the first butterfly index
NextPhase_ExtraExpander(cfg, layer_index) ==
    IF layer_index <= cfg.exp + 1 /\ layer_index < NumLayers(cfg)
    THEN "expander"
    ELSE IF layer_index < NumLayers(cfg) THEN "butterfly"
    ELSE "last"

\* What follows the layer before layer_index in both pipelines: the loop
\* 2..=num_expander_layers, the loop 1 + num_expander_layers..num_layers,
\* then the encoding or decoding layer
NextPhase(cfg, layer_index) ==
    IF layer_index <= cfg.exp THEN "expander"
    ELSE IF layer_index < NumLayers(cfg) THEN "butterfly"
    ELSE "last"

\* The data of a window: field elements and one value that is none
NseDataValues == {0, 1, NseFieldModulus - 1, NseFieldModulus}

NseWindowData == [1..NseWindowNodes -> NseDataValues]

\* One computed layer of the schedule
LayerRecord(kind, layer_index, layer_in, out) ==
    [kind |-> kind, index |-> layer_index, input |-> layer_in, output |-> out]

\* layer_in of both runs
LayerInputs == [r \in Runs |-> LayerIn(nse_prev[r], nse_data[r])]

NseInit ==
    /\ PipelineIdle
    /\ ExtIdle
    /\ SyIdle
    /\ LcIdle
    /\ HpIdle
    /\ ExIdle
    /\ SealIdle
    /\ nse_pc = "enc_start"
    /\ nse_cfg \in [exp : 1..MaxExpanderLayers, bfly : 1..MaxButterflyLayers]
    /\ nse_window \in {0, 3}
    /\ nse_plain \in
          {<<d, [d EXCEPT ![n] = v]>> :
              d \in NseWindowData, n \in 1..NseWindowNodes,
              v \in NseDataValues}
    /\ nse_data = nse_plain
    /\ nse_prev = <<<<>>, <<>>>>
    /\ nse_cur = <<<<>>, <<>>>>
    /\ nse_layer = 0
    /\ nse_store_configs \in
          {[c \in 1..len |-> c] :
              len \in (NumLayers(nse_cfg) - 1)..(NumLayers(nse_cfg) + 1)}
    /\ nse_trees = <<<<>>, <<>>>>
    /\ nse_replica_tree = <<<<>>, <<>>>>
    /\ nse_sched = <<>>
    /\ nse_gpu = [next |-> 1, data |-> nse_plain,
                  configs |-> <<nse_store_configs,
                                SubSeq(nse_store_configs, 1,
                                       Len(nse_store_configs) - 1)>>,
                  trees |-> [r \in Runs |-> <<>>],
                  replica_tree |-> [r \in Runs |-> <<>>]]

\* encode_with_trees: assert_eq!(store_configs.len(), num_layers), buffers
EncStart ==
    /\ nse_pc = "enc_start"
    /\ IF Len(nse_store_configs) # NumLayers(nse_cfg)
       THEN /\ nse_pc' = "panic"
            /\ UNCHANGED <<nse_prev, nse_cur>>
       ELSE /\ nse_pc' = "enc_mask"
            /\ nse_prev' = [r \in Runs |-> NseZeroLayer]
            /\ nse_cur' = [r \in Runs |-> NseZeroLayer]
    /\ UNCHANGED nse_sched
    /\ UNCHANGED <<pipe_vars, hp_vars, ex_vars, seal_vars, lc_vars,
                   sy_vars, ext_vars>>
    /\ UNCHANGED nse_gpu
    /\ UNCHANGED <<nse_cfg, nse_window, nse_plain,
                   nse_data, nse_layer, nse_store_configs, nse_trees,
                   nse_replica_tree>>

\* 1. the mask layer and its tree
EncMask ==
    /\ nse_pc = "enc_mask"
    /\ nse_prev' = [r \in Runs |-> MaskLayer(nse_window)]
    /\ nse_store_configs' = RemoveFirst(nse_store_configs)[2]
    /\ nse_trees' = [r \in Runs |->
          Append(nse_trees[r],
                 TreeFromSlice(MaskLayer(nse_window),
                               RemoveFirst(nse_store_configs)[1]))]
    /\ nse_layer' = 2
    /\ nse_pc' = "enc_" \o NextPhase(nse_cfg, 2)
    /\ nse_sched' = <<LayerRecord("mask", 1, <<>>,
                                  [r \in Runs |-> MaskLayer(nse_window)])>>
    /\ UNCHANGED <<pipe_vars, hp_vars, ex_vars, seal_vars, lc_vars,
                   sy_vars, ext_vars>>
    /\ UNCHANGED nse_gpu
    /\ UNCHANGED <<nse_cfg, nse_window, nse_plain,
                   nse_data, nse_cur, nse_replica_tree>>

\* 2. one expander layer, its tree, the swap of the two buffers
EncExpander ==
    /\ nse_pc = "enc_expander"
    /\ IF ~ExpanderLayerOk(nse_cfg, nse_layer)
       THEN /\ nse_pc' = "error"
            /\ UNCHANGED <<nse_prev, nse_cur, nse_layer, nse_store_configs,
                           nse_trees>>
       ELSE LET out == [r \in Runs |->
                          ExpanderLayer(nse_window, nse_layer,
                                        LayerIn(nse_prev[r], nse_data[r]))]
            IN  /\ nse_store_configs' = RemoveFirst(nse_store_configs)[2]
                /\ nse_trees' = [r \in Runs |->
                      Append(nse_trees[r],
                             TreeFromSlice(out[r],
                                 RemoveFirst(nse_store_configs)[1]))]
                /\ nse_prev' = out
                /\ nse_cur' = nse_prev
                /\ nse_layer' = nse_layer + 1
                /\ nse_pc' = "enc_" \o NextPhase(nse_cfg, nse_layer + 1)
    /\ nse_sched' =
          IF ExpanderLayerOk(nse_cfg, nse_layer)
          THEN Append(nse_sched,
                  LayerRecord("expander", nse_layer, LayerInputs,
                      [r \in Runs |->
                         ExpanderLayer(nse_window, nse_layer, LayerInputs[r])]))
          ELSE nse_sched
    /\ UNCHANGED <<pipe_vars, hp_vars, ex_vars, seal_vars, lc_vars,
                   sy_vars, ext_vars>>
    /\ UNCHANGED nse_gpu
    /\ UNCHANGED <<nse_cfg, nse_window, nse_plain,
                   nse_data, nse_replica_tree>>

\* 3. one butterfly layer, its tree, the swap of the two buffers
EncButterfly ==
    /\ nse_pc = "enc_butterfly"
    /\ IF ~ButterflyLayerOk(nse_cfg, nse_layer)
       THEN /\ nse_pc' = "error"
            /\ UNCHANGED <<nse_prev, nse_cur, nse_layer, nse_store_configs,
                           nse_trees>>
       ELSE LET out == [r \in Runs |->
                          ButterflyLayer(nse_window, nse_layer,
                                         LayerIn(nse_prev[r], nse_data[r]))]
            IN  /\ nse_store_configs' = RemoveFirst(nse_store_configs)[2]
                /\ nse_trees' = [r \in Runs |->
                      Append(nse_trees[r],
                             TreeFromSlice(out[r],
                                 RemoveFirst(nse_store_configs)[1]))]
                /\ nse_prev' = out
                /\ nse_cur' = nse_prev
                /\ nse_layer' = nse_layer + 1
                /\ nse_pc' = "enc_" \o NextPhase(nse_cfg, nse_layer + 1)
    /\ nse_sched' =
          IF ButterflyLayerOk(nse_cfg, nse_layer)
          THEN Append(nse_sched,
                  LayerRecord("butterfly", nse_layer, LayerInputs,
                      [r \in Runs |->
                         ButterflyLayer(nse_window, nse_layer, LayerInputs[r])]))
          ELSE nse_sched
    /\ UNCHANGED <<pipe_vars, hp_vars, ex_vars, seal_vars, lc_vars,
                   sy_vars, ext_vars>>
    /\ UNCHANGED nse_gpu
    /\ UNCHANGED <<nse_cfg, nse_window, nse_plain,
                   nse_data, nse_replica_tree>>

\* 4. the butterfly encoding layer, on data in place
EncEncode ==
    /\ nse_pc = "enc_last"
    /\ LET res == [r \in Runs |->
                     EncodeDecodeNodes(nse_window, nse_layer,
                                       LayerIn(nse_prev[r], nse_data[r]),
                                       nse_data[r], "encode", 0)]
       IN  IF ~EncodeLayerOk(nse_cfg, nse_layer)
           THEN nse_pc' = "error" /\ UNCHANGED nse_data
           ELSE /\ nse_data' = [r \in Runs |-> res[r].data]
                /\ nse_pc' = IF \A r \in Runs : res[r].ok THEN "enc_tree"
                             ELSE "error"
    /\ nse_sched' =
          IF nse_pc' = "enc_tree"
          THEN Append(nse_sched,
                  LayerRecord("encode", nse_layer, LayerInputs, nse_data'))
          ELSE nse_sched
    /\ UNCHANGED <<pipe_vars, hp_vars, ex_vars, seal_vars, lc_vars,
                   sy_vars, ext_vars>>
    /\ UNCHANGED nse_gpu
    /\ UNCHANGED <<nse_cfg, nse_window, nse_plain,
                   nse_prev, nse_cur, nse_layer, nse_store_configs,
                   nse_trees, nse_replica_tree>>

\* The replica tree; encode_with_trees returns Ok((trees, replica_tree))
EncReplicaTree ==
    /\ nse_pc = "enc_tree"
    /\ nse_store_configs' = RemoveFirst(nse_store_configs)[2]
    /\ nse_replica_tree' = [r \in Runs |->
          TreeFromSlice(nse_data[r], RemoveFirst(nse_store_configs)[1])]
    /\ nse_pc' = "encoded"
    /\ UNCHANGED nse_sched
    /\ UNCHANGED <<pipe_vars, hp_vars, ex_vars, seal_vars, lc_vars,
                   sy_vars, ext_vars>>
    /\ UNCHANGED nse_gpu
    /\ UNCHANGED <<nse_cfg, nse_window, nse_plain,
                   nse_data, nse_prev, nse_cur, nse_layer, nse_trees>>

\* The layers the GPU sealer sends for one input, before the replica: the
\* mask, expander and butterfly layers of the window
RECURSIVE GpuKeyLayers(_, _, _, _)
GpuKeyLayers(cfg, window_index, acc, layer_index) ==
    IF layer_index >= NumLayers(cfg) THEN acc
    ELSE LET previous == acc[Len(acc)]
             next == IF layer_index <= cfg.exp
                     THEN ExpanderLayer(window_index, layer_index, previous)
                     ELSE ButterflyLayer(window_index, layer_index, previous)
         IN  GpuKeyLayers(cfg, window_index, Append(acc, next),
                          layer_index + 1)

\* The pc values of encode_with_oct_lc_poseidon_trees_gpu
GpuStates == {"gpu_input", "gpu_error", "gpu_panic", "gpu_encoded"}

\* The layer trees pushed for one input: one per layer before the replica,
\* each with the next store config, as long as there are configs
GpuTrees(keys, configs) ==
    [n \in 1..(IF Len(keys) < Len(configs) THEN Len(keys)
               ELSE Len(configs)) |-> TreeFromSlice(keys[n], configs[n])]

\* encode_with_oct_lc_poseidon_trees_gpu: SealerPool::new(all_devices()?,
\* ..)?, then every input is handed to pool.seal_on_gpu
EncodeGpuPool ==
    /\ nse_pc = "enc_start"
    /\ \/ nse_pc' = "gpu_error"
       \/ nse_pc' = "gpu_input"
    /\ UNCHANGED <<pipe_vars, hp_vars, ex_vars, seal_vars, lc_vars,
                   sy_vars, ext_vars>>
    /\ UNCHANGED <<nse_cfg, nse_window, nse_plain, nse_data, nse_prev,
                   nse_cur, nse_layer, nse_store_configs, nse_trees,
                   nse_replica_tree, nse_sched, nse_gpu>>

\* The outputs of the inputs are collected in order.  For the next input
\* the sealer's channel gives an error, which ends the call with the
\* inputs before it encoded, or the replica is copied into the input's data
\* and its trees are built with store_configs.remove(0), which panics when
\* the input's configs run out; there is no check of store_configs.len()
EncodeGpuInput ==
    /\ nse_pc = "gpu_input"
    /\ \/ /\ nse_pc' = "gpu_error"
          /\ UNCHANGED nse_gpu
       \/ \E r \in {nse_gpu.next} :
          \E keys \in {GpuKeyLayers(nse_cfg, nse_window,
                                     <<MaskLayer(nse_window)>>, 2)} :
          \E res \in {EncodeDecodeNodes(nse_window, NumLayers(nse_cfg),
                                         keys[Len(keys)], nse_gpu.data[r],
                                         "encode", 0)} :
          \E enough \in {Len(nse_gpu.configs[r]) >= NumLayers(nse_cfg)} :
             /\ res.ok
             /\ nse_gpu' =
                   [nse_gpu EXCEPT
                      !.next = IF enough THEN r + 1 ELSE r,
                      !.data[r] = res.data,
                      !.trees[r] = GpuTrees(keys, nse_gpu.configs[r]),
                      !.replica_tree[r] =
                         IF enough
                         THEN TreeFromSlice(res.data,
                                 nse_gpu.configs[r][NumLayers(nse_cfg)])
                         ELSE <<>>,
                      !.configs[r] =
                         IF enough
                         THEN SubSeq(@, NumLayers(nse_cfg) + 1, Len(@))
                         ELSE <<>>]
             /\ nse_pc' = IF ~enough THEN "gpu_panic"
                          ELSE IF r = Cardinality(Runs) THEN "gpu_encoded"
                          ELSE "gpu_input"
    /\ UNCHANGED <<pipe_vars, hp_vars, ex_vars, seal_vars, lc_vars,
                   sy_vars, ext_vars>>
    /\ UNCHANGED <<nse_cfg, nse_window, nse_plain, nse_data, nse_prev,
                   nse_cur, nse_layer, nse_store_configs, nse_trees,
                   nse_replica_tree, nse_sched>>

\* decode on the replica: buffers, 1. the mask layer
DecMask ==
    /\ nse_pc = "encoded"
    /\ nse_prev' = [r \in Runs |-> MaskLayer(nse_window)]
    /\ nse_cur' = [r \in Runs |-> NseZeroLayer]
    /\ nse_layer' = 2
    /\ nse_pc' = "dec_" \o NextPhase(nse_cfg, 2)
    /\ nse_sched' = <<LayerRecord("mask", 1, <<>>,
                                  [r \in Runs |-> MaskLayer(nse_window)])>>
    /\ UNCHANGED <<pipe_vars, hp_vars, ex_vars, seal_vars, lc_vars,
                   sy_vars, ext_vars>>
    /\ UNCHANGED nse_gpu
    /\ UNCHANGED <<nse_cfg, nse_window, nse_plain,
                   nse_data, nse_store_configs, nse_trees, nse_replica_tree>>

\* decode: 2. one expander layer
DecExpander ==
    /\ nse_pc = "dec_expander"
    /\ IF ~ExpanderLayerOk(nse_cfg, nse_layer)
       THEN /\ nse_pc' = "error"
            /\ UNCHANGED <<nse_prev, nse_cur, nse_layer>>
       ELSE /\ nse_prev' = [r \in Runs |->
                  ExpanderLayer(nse_window, nse_layer,
                                LayerIn(nse_prev[r], nse_data[r]))]
            /\ nse_cur' = nse_prev
            /\ nse_layer' = nse_layer + 1
            /\ nse_pc' = "dec_" \o NextPhase(nse_cfg, nse_layer + 1)
    /\ nse_sched' =
          IF ExpanderLayerOk(nse_cfg, nse_layer)
          THEN Append(nse_sched,
                  LayerRecord("expander", nse_layer, LayerInputs,
                      [r \in Runs |->
                         ExpanderLayer(nse_window, nse_layer, LayerInputs[r])]))
          ELSE nse_sched
    /\ UNCHANGED <<pipe_vars, hp_vars, ex_vars, seal_vars, lc_vars,
                   sy_vars, ext_vars>>
    /\ UNCHANGED nse_gpu
    /\ UNCHANGED <<nse_cfg, nse_window, nse_plain,
                   nse_data, nse_store_configs, nse_trees, nse_replica_tree>>

\* decode: 3. one butterfly layer
DecButterfly ==
    /\ nse_pc = "dec_butterfly"
    /\ IF ~ButterflyLayerOk(nse_cfg, nse_layer)
       THEN /\ nse_pc' = "error"
            /\ UNCHANGED <<nse_prev, nse_cur, nse_layer>>
       ELSE /\ nse_prev' = [r \in Runs |->
                  ButterflyLayer(nse_window, nse_layer,
                                 LayerIn(nse_prev[r], nse_data[r]))]
            /\ nse_cur' = nse_prev
            /\ nse_layer' = nse_layer + 1
            /\ nse_pc' = "dec_" \o NextPhase(nse_cfg, nse_layer + 1)
    /\ nse_sched' =
          IF ButterflyLayerOk(nse_cfg, nse_layer)
          THEN Append(nse_sched,
                  LayerRecord("butterfly", nse_layer, LayerInputs,
                      [r \in Runs |->
                         ButterflyLayer(nse_window, nse_layer, LayerInputs[r])]))
          ELSE nse_sched
    /\ UNCHANGED <<pipe_vars, hp_vars, ex_vars, seal_vars, lc_vars,
                   sy_vars, ext_vars>>
    /\ UNCHANGED nse_gpu
    /\ UNCHANGED <<nse_cfg, nse_window, nse_plain,
                   nse_data, nse_store_configs, nse_trees, nse_replica_tree>>

\* decode: 4. the butterfly decoding layer, on the replica in place
DecDecode ==
    /\ nse_pc = "dec_last"
    /\ LET li == DecodeLayerIndex(nse_cfg)
           res == [r \in Runs |->
                     EncodeDecodeNodes(nse_window, li,
                                       LayerIn(nse_prev[r], nse_data[r]),
                                       nse_data[r], "decode", 0)]
       IN  IF ~EncodeLayerOk(nse_cfg, li)
           THEN nse_pc' = "error" /\ UNCHANGED nse_data
           ELSE /\ nse_data' = [r \in Runs |-> res[r].data]
                /\ nse_pc' = IF \A r \in Runs : res[r].ok THEN "decoded"
                             ELSE "error"
    /\ nse_sched' =
          IF nse_pc' = "decoded"
          THEN Append(nse_sched,
                  LayerRecord("decode", DecodeLayerIndex(nse_cfg),
                              LayerInputs, nse_data'))
          ELSE nse_sched
    /\ UNCHANGED <<pipe_vars, hp_vars, ex_vars, seal_vars, lc_vars,
                   sy_vars, ext_vars>>
    /\ UNCHANGED nse_gpu
    /\ UNCHANGED <<nse_cfg, nse_window, nse_plain,
                   nse_prev, nse_cur, nse_layer, nse_store_configs,
                   nse_trees, nse_replica_tree>>

NseNext ==
    \/ EncStart
    \/ EncMask
    \/ EncExpander
    \/ EncButterfly
    \/ EncEncode
    \/ EncReplicaTree
    \/ EncodeGpuPool
    \/ EncodeGpuInput
    \/ DecMask
    \/ DecExpander
    \/ DecButterfly
    \/ DecDecode

NseSpec == NseInit /\ [][NseNext]_vars

(***************************************************************************)
(* Derived notions of the NSE runs.                                        *)
(***************************************************************************)
\* encode_with_trees has returned Ok
EncodeReturned ==
    nse_pc \in {"encoded", "dec_expander", "dec_butterfly", "dec_last",
                "decoded"}

\* The data of both runs are field elements
CanonicalData ==
    \A r \in Runs : \A n \in 1..NseWindowNodes :
       IsFieldElement(nse_plain[r][n])

(***************************************************************************)
(* C12.  NSE round trip: for every config, window_index and window of      *)
(* canonical field elements data, decode applied to the replica written by *)
(* encode_with_trees restores data byte for byte: the decode pipeline      *)
(* derives the same key layer as the encode pipeline, and                  *)
(* butterfly_decode_layer inverts butterfly_encode_layer for the same      *)
(* layer_in.                                                               *)
(***************************************************************************)
C12_RoundTrip ==
    /\ CanonicalData => nse_pc # "error"
    /\ nse_pc = "dec_last" =>
          \A r \in Runs :
             NumLayers(nse_cfg) >= 2 =>
                nse_prev[r] = nse_trees[r][NumLayers(nse_cfg) - 1].leaves
    /\ nse_pc = "decoded" => nse_data = nse_plain

\* A window has been encoded to something else and decoded again, with
\* expander and butterfly layers between the mask and the encoding layer
C12_Witness ==
    /\ nse_pc = "decoded"
    /\ nse_cfg = [exp |-> MaxExpanderLayers, bfly |-> MaxButterflyLayers]
    /\ nse_window = 3
    /\ nse_replica_tree[1].leaves # nse_plain[1]
    /\ nse_data[1] = nse_plain[1]

(***************************************************************************)
(* C13.  encode_with_trees, given exactly num_layers store configs,        *)
(* returns num_layers - 1 layer trees plus one replica tree, consuming the *)
(* store configs strictly in order: the tree of layer l is built with the  *)
(* l-th config, the replica tree with the last one, and no config is left  *)
(* unused.                                                                 *)
(***************************************************************************)
C13_ConfigsInOrder ==
    /\ nse_pc = "panic" => Len(nse_store_configs) # NumLayers(nse_cfg)
    /\ nse_pc \notin ({"idle", "enc_start", "panic"} \cup GpuStates) =>
          \A r \in Runs :
             /\ \A l \in 1..Len(nse_trees[r]) : nse_trees[r][l].config = l
             /\ Len(nse_trees[r]) + Len(nse_store_configs)
                   + (IF nse_replica_tree[r] = <<>> THEN 0 ELSE 1)
                   = NumLayers(nse_cfg)
             /\ \A j \in 1..Len(nse_store_configs) :
                   nse_store_configs[j] = NumLayers(nse_cfg)
                                             - Len(nse_store_configs) + j
    /\ EncodeReturned =>
          \A r \in Runs :
             /\ Len(nse_trees[r]) = NumLayers(nse_cfg) - 1
             /\ nse_replica_tree[r].config = NumLayers(nse_cfg)
             /\ nse_replica_tree[r].leaves = nse_data[r] \/ nse_pc = "decoded"
             /\ nse_store_configs = <<>>

\* encode_with_trees has returned with the most layers a config can have
C13_Witness ==
    /\ nse_pc = "encoded"
    /\ nse_cfg = [exp |-> MaxExpanderLayers, bfly |-> MaxButterflyLayers]
    /\ Len(nse_trees[1]) = MaxExpanderLayers + MaxButterflyLayers - 1
    /\ nse_replica_tree[1].config = MaxExpanderLayers + MaxButterflyLayers

(***************************************************************************)
(* C15.  NSE independence: what encode_with_trees produces for window w is *)
(* a function of (config, w, replica_id, data of window w) only; two runs  *)
(* that differ only in the data produce identical mask, expander and       *)
(* butterfly layers (the first num_layers - 1 trees).                      *)
(***************************************************************************)
C15_LayersIgnoreData ==
    /\ nse_trees[1] = nse_trees[2]
    /\ nse_pc \in {"enc_expander", "enc_butterfly", "enc_last", "enc_tree"} =>
          nse_prev[1] = nse_prev[2]
    /\ EncodeReturned =>
          /\ nse_plain[1] = nse_plain[2] =>
                nse_replica_tree[1] = nse_replica_tree[2]
          /\ \A n \in 1..NseWindowNodes :
                nse_plain[1][n] = nse_plain[2][n] =>
                   nse_replica_tree[1].leaves[n] = nse_replica_tree[2].leaves[n]

\* Two runs on windows that differ in one node have returned; their
\* replicas differ and their three layer trees hold layers that are not
\* all equal
C15_Witness ==
    /\ nse_pc = "encoded"
    /\ nse_cfg = [exp |-> MaxExpanderLayers, bfly |-> MaxButterflyLayers]
    /\ nse_plain[1] # nse_plain[2]
    /\ nse_replica_tree[1].leaves # nse_replica_tree[2].leaves
    /\ Len(nse_trees[1]) >= 2
    /\ nse_trees[1][1].leaves # nse_trees[1][Len(nse_trees[1])].leaves

(***************************************************************************)
(* The parent blocks of a slot that the consumer hashes.                   *)
(***************************************************************************)
\* The parent positions inside the blocks compress256! reads from
\* &buf[64..]: three blocks in layer 1, seven blocks in the other layers
HashedParentPositions(cur_layer) ==
    IF cur_layer = 1 THEN 0..(BASE_DEGREE - 1) ELSE 0..(DEGREE - 1)

\* A parent block no label has been copied into
EmptyBlock == [o \in 1..NODE_SIZE |-> 0]

\* The consumer is about to hash node i of layer 1
HashingLayer1 == InPass /\ layer = 1 /\ cpc = "hash"

(***************************************************************************)
(* C19 as stated.  Layer 1 has no parents: in the layer-1 pass the label   *)
(* of every node v is a function of (layer index, node index v,            *)
(* replica_id) only; no parent label block, base or expander, is part of   *)
(* the hashed preimage.                                                    *)
(***************************************************************************)
C19_Layer1NoParents ==
    HashingLayer1 =>
       \A pos \in HashedParentPositions(1) :
          ParentBlock(ring_buf[cur_slot], pos) = EmptyBlock

(***************************************************************************)
(* C19, amended.  Layer 1 has no expander parents: when the consumer       *)
(* hashes node v >= 1 of layer 1, the six hashed parent blocks hold the    *)
(* final layer-1 labels of v's base parents and no expander block has been *)
(* written; the label is a function of (layer index, v, replica_id) and    *)
(* the layer-1 labels of v's base parents.                                 *)
(***************************************************************************)
C19_Layer1BaseParentsOnly ==
    /\ HashingLayer1 =>
          \A pos \in 0..(DEGREE - 1) :
             ParentBlock(ring_buf[cur_slot], pos) =
                IF pos \in HashedParentPositions(1)
                THEN AsByteSlice(layer_labels[ParentCache(i * DEGREE + pos)])
                ELSE EmptyBlock
    /\ (opc = "store" /\ layer = 1) =>
          \A v \in Nodes :
             layer_labels[v] =
                RefLabel(1, v, SubSeq(SlabSeq(layer_labels), 1, v), <<>>)

\* The consumer is about to hash the last node of layer 1, and the block
\* of its last base parent holds the label of the node before it
C19_Witness ==
    /\ HashingLayer1
    /\ i = NumNodes - 1
    /\ ParentBlock(ring_buf[cur_slot], BASE_DEGREE - 1) # EmptyBlock
    /\ ParentBlock(ring_buf[cur_slot], BASE_DEGREE - 1) =
          AsByteSlice(layer_labels[i - 1])

(***************************************************************************)
(* C20.  Parent-cache reset protocol with L layers: finish_reset is called *)
(* before the pipeline of layer l only if l > 1 (and L # 1), start_reset   *)
(* is called after the pipeline of layer l only if l < L, so the calls     *)
(* strictly alternate start_reset, finish_reset and every finish_reset is  *)
(* preceded by a start_reset that has not yet been finished.               *)
(***************************************************************************)
C20_ResetProtocol ==
    /\ (layer = 1 /\ opc \in {"start", "pass", "store"}) => reset_calls = <<>>
    /\ \A j \in 1..Len(reset_calls) :
          reset_calls[j] = IF j % 2 = 1 THEN "start_reset" ELSE "finish_reset"

(***************************************************************************)
(* extract_all and extract (stacked/porep.rs).  A sealed sector is a       *)
(* sequence of windows of window_size_nodes nodes of NODE_SIZE bytes.      *)
(* extract_single_window decodes one window in place with the labels of    *)
(* that window; extract_all_windows does so for every window of the        *)
(* sector.  One run calls extract_all and then extract on the same sector. *)
(***************************************************************************)
MaxWindowSizeNodes == 2

MaxWindows == 2

\* pp.window_size_bytes()
WindowSizeBytes(wsn) == wsn * NODE_SIZE

\* The byte of the key of window window_index at byte offset o of the
\* window (stand-in for the last layer's labels of the window)
WindowKeyByte(window_index, o) ==
    (ReplicaId[1] + 7 * window_index + 3 * o + (o \div NODE_SIZE)) % 256

\* extract_single_window(pp, replica_id, &mut window, window_index)
ExtractSingleWindow(window, window_index) ==
    [o \in 1..Len(window) |->
        (window[o] + 256 - WindowKeyByte(window_index, o - 1)) % 256]

\* data[window_start..window_end]
WindowSlice(data, wsn, window_index) ==
    SubSeq(data, window_index * WindowSizeBytes(wsn) + 1,
           (window_index + 1) * WindowSizeBytes(wsn))

\* A faulty window index: the first window, whatever the node
WindowStartIndex_First(node, wsn) == 0

\* let window_start_index = node / pp.window_size_nodes()
WindowStartIndex(node, wsn) == node \div wsn

\* let node_window_index = node % pp.window_size_nodes()
NodeWindowIndex(node, wsn) == node % wsn

\* The sealed sectors of the runs: every byte from a seed and its offset
ExDataSeeds == {1, 3, 5, 7}

SealedSector(seed, len) == [o \in 1..len |-> (seed * o + (o \div 5)) % 256]

ExInit ==
    /\ PipelineIdle
    /\ ExtIdle
    /\ SyIdle
    /\ LcIdle
    /\ HpIdle
    /\ NseIdle
    /\ SealIdle
    /\ ex_pc = "all_copy"
    /\ ex_wsn \in 1..MaxWindowSizeNodes
    /\ ex_data \in {SealedSector(seed, nw * WindowSizeBytes(ex_wsn)) :
                       seed \in ExDataSeeds, nw \in 1..MaxWindows}
    /\ ex_node \in 0..((Len(ex_data) \div NODE_SIZE) - 1)
    /\ ex_all = <<>>
    /\ ex_w = 0
    /\ ex_window = <<>>
    /\ ex_window_index = 0
    /\ ex_out = <<>>

\* extract_all: let mut data = data.to_vec()
ExtractAllCopy ==
    /\ ex_pc = "all_copy"
    /\ ex_all' = ex_data
    /\ ex_w' = 0
    /\ ex_pc' = "all_windows"
    /\ UNCHANGED <<pipe_vars, hp_vars, nse_vars, seal_vars, lc_vars,
                   sy_vars, ext_vars>>
    /\ UNCHANGED <<ex_wsn, ex_data, ex_node, ex_window, ex_window_index,
                   ex_out>>

\* extract_all: extract_all_windows(pp, replica_id, &mut data, config),
\* one window
ExtractAllWindow ==
    /\ ex_pc = "all_windows"
    /\ ex_w * WindowSizeBytes(ex_wsn) < Len(ex_all)
    /\ ex_all' = CopyFromSlice(ex_all, ex_w * WindowSizeBytes(ex_wsn),
                    ExtractSingleWindow(WindowSlice(ex_all, ex_wsn, ex_w),
                                        ex_w))
    /\ ex_w' = ex_w + 1
    /\ UNCHANGED <<pipe_vars, hp_vars, nse_vars, seal_vars, lc_vars,
                   sy_vars, ext_vars>>
    /\ UNCHANGED <<ex_pc, ex_wsn, ex_data, ex_node, ex_window,
                   ex_window_index, ex_out>>

\* extract_all: Ok(data)
ExtractAllReturn ==
    /\ ex_pc = "all_windows"
    /\ ex_w * WindowSizeBytes(ex_wsn) >= Len(ex_all)
    /\ ex_pc' = "grab"
    /\ UNCHANGED <<pipe_vars, hp_vars, nse_vars, seal_vars, lc_vars,
                   sy_vars, ext_vars>>
    /\ UNCHANGED <<ex_wsn, ex_data, ex_node, ex_all, ex_w, ex_window,
                   ex_window_index, ex_out>>

\* extract: grab the window for this node
ExtractGrabWindow ==
    /\ ex_pc = "grab"
    /\ ex_window_index' = WindowStartIndex(ex_node, ex_wsn)
    /\ ex_window' = WindowSlice(ex_data, ex_wsn,
                                WindowStartIndex(ex_node, ex_wsn))
    /\ ex_pc' = "decode"
    /\ UNCHANGED <<pipe_vars, hp_vars, nse_vars, seal_vars, lc_vars,
                   sy_vars, ext_vars>>
    /\ UNCHANGED <<ex_wsn, ex_data, ex_node, ex_all, ex_w, ex_out>>

\* extract: extract_single_window(pp, replica_id, &mut window,
\* window_start_index)
ExtractDecodeWindow ==
    /\ ex_pc = "decode"
    /\ ex_window' = ExtractSingleWindow(ex_window, ex_window_index)
    /\ ex_pc' = "node"
    /\ UNCHANGED <<pipe_vars, hp_vars, nse_vars, seal_vars, lc_vars,
                   sy_vars, ext_vars>>
    /\ UNCHANGED <<ex_wsn, ex_data, ex_node, ex_all, ex_w, ex_window_index,
                   ex_out>>

\* extract: the node of the window, Ok(node)
ExtractReturn ==
    /\ ex_pc = "node"
    /\ ex_out' = SubSeq(ex_window,
                        NodeWindowIndex(ex_node, ex_wsn) * NODE_SIZE + 1,
                        (NodeWindowIndex(ex_node, ex_wsn) + 1) * NODE_SIZE)
    /\ ex_pc' = "extracted"
    /\ UNCHANGED <<pipe_vars, hp_vars, nse_vars, seal_vars, lc_vars,
                   sy_vars, ext_vars>>
    /\ UNCHANGED <<ex_wsn, ex_data, ex_node, ex_all, ex_w, ex_window,
                   ex_window_index>>

ExNext ==
    \/ ExtractAllCopy
    \/ ExtractAllWindow
    \/ ExtractAllReturn
    \/ ExtractGrabWindow
    \/ ExtractDecodeWindow
    \/ ExtractReturn

ExSpec == ExInit /\ [][ExNext]_vars

(***************************************************************************)
(* C16.  Single-node extraction agrees with full extraction: for a valid   *)
(* node index i, extract(pp, replica_id, data, i) returns exactly bytes    *)
(* [32 i, 32 (i + 1)) of extract_all(pp, replica_id, data); it decodes     *)
(* only the window floor(i / window_size_nodes) and returns the node at    *)
(* position i mod window_size_nodes of that window.                        *)
(***************************************************************************)
C16_ExtractAgrees ==
    /\ ex_pc \in {"decode", "node", "extracted"} =>
          /\ ex_window_index * ex_wsn <= ex_node
          /\ ex_node < (ex_window_index + 1) * ex_wsn
          /\ Len(ex_window) = WindowSizeBytes(ex_wsn)
    /\ ex_pc = "node" =>
          ex_window = WindowSlice(ex_all, ex_wsn, ex_window_index)
    /\ ex_pc = "extracted" =>
          /\ ex_out = SubSeq(ex_all, NODE_SIZE * ex_node + 1,
                             NODE_SIZE * (ex_node + 1))
          /\ ex_out = SubSeq(ex_window,
                             (ex_node % ex_wsn) * NODE_SIZE + 1,
                             ((ex_node % ex_wsn) + 1) * NODE_SIZE)

\* extract has returned the last node of a sector of several windows of
\* several nodes, and decoding changed that node
C16_Witness ==
    /\ ex_pc = "extracted"
    /\ ex_wsn = MaxWindowSizeNodes
    /\ Len(ex_data) = MaxWindows * WindowSizeBytes(ex_wsn)
    /\ ex_node = MaxWindows * MaxWindowSizeNodes - 1
    /\ ex_window_index = MaxWindows - 1
    /\ ex_out # SubSeq(ex_data, NODE_SIZE * ex_node + 1,
                       NODE_SIZE * (ex_node + 1))
    /\ ex_out = SubSeq(ex_all, NODE_SIZE * ex_node + 1,
                       NODE_SIZE * (ex_node + 1))

(***************************************************************************)
(* seal and verify_seal (filecoin-proofs/src/api.rs).  Every call seal     *)
(* makes with `?`, unwrap or expect can fail; seal_env fixes, for one run, *)
(* which call of seal fails (if any), what the piece inclusion check and   *)
(* verify_seal's own calls do, and whether the proof verifies.  The        *)
(* FileCleanup guard is dropped when seal returns or unwinds, and removes  *)
(* the file at out_path unless its field success is true.                  *)
(***************************************************************************)
\* The calls of seal that fail with `?` before cleanup.success = true
FaultsBeforeProtect ==
    {"copy", "open", "set_len", "setup", "replicate", "piece_specs",
     "pips", "flush"}

\* The calls of seal that fail with `?` after cleanup.success = true
FaultsAfterProtect == {"params", "prove", "write"}

\* map_mut(&f_data).unwrap()
PanicsBeforeProtect == {"map_mut"}

SealFaults ==
    {"none"} \cup FaultsBeforeProtect \cup PanicsBeforeProtect
       \cup FaultsAfterProtect

\* The calls of verify_seal that fail with `?`, and ZigZagCompound::verify
VerifyFaults ==
    {"none", "bytes_into_fr", "setup", "verifying_key", "new_from_reader",
     "verify"}

\* What PieceInclusionProof::verify_all returns
PieceOutcomes == {"ok_true", "ok_false", "err"}

SealEnvs ==
    [fault : SealFaults, pieces : PieceOutcomes, verify_fault : VerifyFaults,
     proof_verifies : BOOLEAN]

\* verify_seal: Err from any of its calls, else Ok(the proof verifies)
VerifySeal(env) ==
    IF env.verify_fault # "none" THEN "err"
    ELSE IF env.proof_verifies THEN "ok_true"
    ELSE "ok_false"

\* A faulty order: cleanup.success = true before data.flush()?
GuardAfterFlush_Always(flush_failed) == TRUE

\* data.flush()?; cleanup.success = true
GuardAfterFlush(flush_failed) == ~flush_failed

\* FileCleanup::drop: the file is removed unless success
DropRemoves(success) == ~success

SealInit ==
    /\ PipelineIdle
    /\ ExtIdle
    /\ SyIdle
    /\ LcIdle
    /\ HpIdle
    /\ NseIdle
    /\ ExIdle
    /\ seal_pc = "begin"
    /\ seal_env \in SealEnvs
    /\ seal_success = FALSE
    /\ seal_file \in {"absent", "other"}
    /\ seal_verified = "none"
    /\ seal_result = "none"

\* let mut cleanup = FileCleanup::new(&out_path)
SealBegin ==
    /\ seal_pc = "begin"
    /\ seal_success' = FALSE
    /\ seal_pc' = "prepare"
    /\ UNCHANGED <<pipe_vars, hp_vars, nse_vars, ex_vars, lc_vars, sy_vars,
                   ext_vars>>
    /\ UNCHANGED <<seal_env, seal_file, seal_verified, seal_result>>

\* copy(&in_path, &out_path)?; open?; set_len?; map_mut().unwrap()
\* A copy that fails has left out_path as it was (nothing, or the file
\* that was there), or has written a part or all of the input to it
SealPrepare ==
    /\ seal_pc = "prepare"
    /\ IF seal_env.fault = "copy"
       THEN seal_file' \in {seal_file, "partial", "unsealed"}
       ELSE seal_file' = "unsealed"
    /\ IF seal_env.fault \in {"copy", "open", "set_len"}
       THEN seal_result' = "Err" /\ seal_pc' = "exit"
       ELSE IF seal_env.fault = "map_mut"
       THEN seal_result' = "panic" /\ seal_pc' = "exit"
       ELSE seal_result' = seal_result /\ seal_pc' = "setup"
    /\ UNCHANGED <<pipe_vars, hp_vars, nse_vars, ex_vars, lc_vars, sy_vars,
                   ext_vars>>
    /\ UNCHANGED <<seal_env, seal_success, seal_verified>>

\* replica_id, ZigZagCompound::setup(&compound_setup_params)?
SealSetup ==
    /\ seal_pc = "setup"
    /\ IF seal_env.fault = "setup"
       THEN seal_result' = "Err" /\ seal_pc' = "exit"
       ELSE seal_result' = seal_result /\ seal_pc' = "replicate"
    /\ UNCHANGED <<pipe_vars, hp_vars, nse_vars, ex_vars, lc_vars, sy_vars,
                   ext_vars>>
    /\ UNCHANGED <<seal_env, seal_success, seal_file, seal_verified>>

\* ZigZagDrgPoRep::replicate(.., &mut data, None)?, in place in the file.
\* A replication that fails has written nothing, a part or all of the
\* replica to the mapped file
SealReplicate ==
    /\ seal_pc = "replicate"
    /\ IF seal_env.fault = "replicate"
       THEN seal_result' = "Err" /\ seal_pc' = "exit"
               /\ seal_file' \in {seal_file, "partial", "sealed"}
       ELSE seal_result' = seal_result /\ seal_pc' = "pieces"
               /\ seal_file' = "sealed"
    /\ UNCHANGED <<pipe_vars, hp_vars, nse_vars, ex_vars, lc_vars, sy_vars,
                   ext_vars>>
    /\ UNCHANGED <<seal_env, seal_success, seal_verified>>

\* generate_piece_specs(..)?; piece_inclusion_proofs(..)?
SealPieces ==
    /\ seal_pc = "pieces"
    /\ IF seal_env.fault \in {"piece_specs", "pips"}
       THEN seal_result' = "Err" /\ seal_pc' = "exit"
       ELSE seal_result' = seal_result /\ seal_pc' = "flush"
    /\ UNCHANGED <<pipe_vars, hp_vars, nse_vars, ex_vars, lc_vars, sy_vars,
                   ext_vars>>
    /\ UNCHANGED <<seal_env, seal_success, seal_file, seal_verified>>

\* data.flush()?; cleanup.success = true
SealFlush ==
    /\ seal_pc = "flush"
    /\ seal_success' = GuardAfterFlush(seal_env.fault = "flush")
    /\ IF seal_env.fault = "flush"
       THEN seal_result' = "Err" /\ seal_pc' = "exit"
       ELSE seal_result' = seal_result /\ seal_pc' = "prove"
    /\ UNCHANGED <<pipe_vars, hp_vars, nse_vars, ex_vars, lc_vars, sy_vars,
                   ext_vars>>
    /\ UNCHANGED <<seal_env, seal_file, seal_verified>>

\* get_zigzag_params(..)?; ZigZagCompound::prove(..)?; proof.write(..)?
SealProve ==
    /\ seal_pc = "prove"
    /\ IF seal_env.fault \in FaultsAfterProtect
       THEN seal_result' = "Err" /\ seal_pc' = "exit"
       ELSE seal_result' = seal_result /\ seal_pc' = "check_pieces"
    /\ UNCHANGED <<pipe_vars, hp_vars, nse_vars, ex_vars, lc_vars, sy_vars,
                   ext_vars>>
    /\ UNCHANGED <<seal_env, seal_success, seal_file, seal_verified>>

\* verify_all(..).expect(..); if !valid_pieces { return Err(..) }
SealCheckPieces ==
    /\ seal_pc = "check_pieces"
    /\ IF seal_env.pieces = "err"
       THEN seal_result' = "panic" /\ seal_pc' = "exit"
       ELSE IF seal_env.pieces = "ok_false"
       THEN seal_result' = "Err" /\ seal_pc' = "exit"
       ELSE seal_result' = seal_result /\ seal_pc' = "verify"
    /\ UNCHANGED <<pipe_vars, hp_vars, nse_vars, ex_vars, lc_vars, sy_vars,
                   ext_vars>>
    /\ UNCHANGED <<seal_env, seal_success, seal_file, seal_verified>>

\* verify_seal(..).expect("post-seal verification sanity check failed")
SealVerify ==
    /\ seal_pc = "verify"
    /\ seal_verified' = VerifySeal(seal_env)
    /\ IF VerifySeal(seal_env) = "err"
       THEN seal_result' = "panic" /\ seal_pc' = "exit"
       ELSE seal_result' = seal_result /\ seal_pc' = "return"
    /\ UNCHANGED <<pipe_vars, hp_vars, nse_vars, ex_vars, lc_vars, sy_vars,
                   ext_vars>>
    /\ UNCHANGED <<seal_env, seal_success, seal_file>>

\* Ok(SealOutput { .. })
SealReturn ==
    /\ seal_pc = "return"
    /\ seal_result' = "Ok"
    /\ seal_pc' = "exit"
    /\ UNCHANGED <<pipe_vars, hp_vars, nse_vars, ex_vars, lc_vars, sy_vars,
                   ext_vars>>
    /\ UNCHANGED <<seal_env, seal_success, seal_file, seal_verified>>

\* The guard goes out of scope
SealExit ==
    /\ seal_pc = "exit"
    /\ seal_file' = IF DropRemoves(seal_success) THEN "removed" ELSE seal_file
    /\ seal_pc' = "done"
    /\ UNCHANGED <<pipe_vars, hp_vars, nse_vars, ex_vars, lc_vars, sy_vars,
                   ext_vars>>
    /\ UNCHANGED <<seal_env, seal_success, seal_verified, seal_result>>

SealNext ==
    \/ SealBegin
    \/ SealPrepare
    \/ SealSetup
    \/ SealReplicate
    \/ SealPieces
    \/ SealFlush
    \/ SealProve
    \/ SealCheckPieces
    \/ SealVerify
    \/ SealReturn
    \/ SealExit

SealSpec == SealInit /\ [][SealNext]_vars

\* seal has left its body: returned Ok or Err, or unwinds from a panic
SealLeft == seal_pc \in {"exit", "done"}

(***************************************************************************)
(* C17.  seal never returns an unverified proof: seal returns              *)
(* Ok(SealOutput) only if the post-seal verify_seal on the produced        *)
(* commitments and proof returned Ok(true); if verify_seal returns         *)
(* Ok(false) or Err, seal does not return Ok.                              *)
(***************************************************************************)
C17_OkOnlyIfVerified ==
    seal_result = "Ok" => seal_verified = "ok_true"

(***************************************************************************)
(* C18 as stated.  Whenever seal does not return Ok (any error from copy   *)
(* to the post-seal verification), the sealed file at out_path is          *)
(* discarded: the FileCleanup guard still has success = false at exit.     *)
(***************************************************************************)
C18_DiscardedOnFailure ==
    (SealLeft /\ seal_result # "Ok") => ~seal_success

(***************************************************************************)
(* C18, amended.  When seal does not return Ok because a call up to and    *)
(* including data.flush() failed, the FileCleanup guard still has success  *)
(* = false at exit; once data.flush() has returned Ok the guard has        *)
(* success = true, and a later failure (parameters, proving, writing the   *)
(* proof, the piece inclusion check, the post-seal verification) leaves    *)
(* seal with success = true.                                               *)
(***************************************************************************)
C18_DiscardedBeforeProtect ==
    /\ SealLeft =>
          (~seal_success <=>
              seal_env.fault \in FaultsBeforeProtect \cup PanicsBeforeProtect)
    /\ seal_result = "Ok" => seal_success

\* One run has failed in data.flush() and has left seal with success =
\* false
C18_Witness ==
    /\ seal_pc = "done"
    /\ seal_result = "Err"
    /\ seal_env.fault = "flush"
    /\ ~seal_success

(***************************************************************************)
(* C29 as stated.  The 64-byte prefix of every ring slot handed to the     *)
(* consumer for node v of layer l has the layout: bytes 0..3 = l (u32      *)
(* big-endian), bytes 4..11 = v (u64 big-endian), bytes 12..31 = zero,     *)
(* bytes 32..63 = replica_id.                                              *)
(***************************************************************************)
C29_PrefixAsHashPrefix ==
    (InPass /\ cpc \in {"patch", "hash"}) =>
       /\ BeValue(SubSeq(ring_buf[cur_slot], 1, 4)) = layer
       /\ BeValue(SubSeq(ring_buf[cur_slot], 5, 12)) = i
       /\ \A o \in 13..32 : ring_buf[cur_slot][o] = 0
       /\ SubSeq(ring_buf[cur_slot], 33, 64) = ReplicaId

(***************************************************************************)
(* C29, amended.  The 64-byte prefix of every ring slot handed to the      *)
(* consumer for node v of layer l holds v as u64 big-endian at bytes       *)
(* 36..43; every other byte of the prefix is as prepare_block(replica_id,  *)
(* l, buf) left it.  (A node index is below 2^32: the upper four bytes of  *)
(* the u64 are zero and the lower four hold v.)                            *)
(***************************************************************************)
C29_PrefixLayout ==
    (InPass /\ cpc \in {"patch", "hash"}) =>
       /\ \A o \in 37..40 : ring_buf[cur_slot][o] = 0
       /\ BeValue(SubSeq(ring_buf[cur_slot], 41, 44)) = i
       /\ \E block \in {PrepareBlock(ReplicaId, layer, ZeroBuf)} :
             /\ SubSeq(ring_buf[cur_slot], 1, 36) = SubSeq(block, 1, 36)
             /\ SubSeq(ring_buf[cur_slot], 45, 64) = SubSeq(block, 45, 64)

\* The consumer holds the slot of the last node of the last layer, a slot
\* that held the prefix of an earlier node and of the layer before
C29_Witness ==
    /\ InPass
    /\ cpc = "hash"
    /\ layer = Layers
    /\ layer > 1
    /\ i = NumNodes - 1
    /\ i > Lookahead
    /\ BeValue(SubSeq(ring_buf[cur_slot], 41, 44)) = NumNodes - 1

(***************************************************************************)
(* C21.  Orchestrator buffer discipline: layer 1 runs with no previous     *)
(* slab; for every layer l > 1 the slab passed as exp_labels holds exactly *)
(* the finalized labels of layer l - 1 and is not written by any thread    *)
(* during the pass of layer l; the store persisted for layer l is built    *)
(* from the labels of layer l before the two slabs are swapped.            *)
(***************************************************************************)
C21_BufferDiscipline ==
    /\ (InPass /\ layer = 1) => ~HasExpLabels
    /\ (opc \in {"pass", "store"} /\ layer > 1) =>
          /\ HasExpLabels
          /\ Len(labels) = layer - 1
          /\ exp_labels = labels[layer - 1]
    /\ (opc = "start" /\ layer > 1) =>
          /\ Len(labels) = layer - 1
          /\ exp_labels = labels[layer - 1]
          /\ SlabSeq(exp_labels) = RefLayer(layer - 1)
    /\ opc = "done" => labels[Layers] = exp_labels

\* The consumer hashes in a pass after the first, with the stored labels
\* of the layer before as exp_labels and other labels in layer_labels
C21_Witness ==
    /\ InPass
    /\ layer = Layers
    /\ layer > 1
    /\ cpc = "hash"
    /\ i = NumNodes - 1
    /\ exp_labels = labels[layer - 1]
    /\ exp_labels[NumNodes - 1] # ZeroLabel
    /\ layer_labels[NumNodes - 2] # exp_labels[NumNodes - 2]

(***************************************************************************)
(* C25.  Base-parent label bytes are taken from the previous layer's slab: *)
(* both the producer's early copy and the consumer's late patch read index *)
(* p_k of exp_labels, not the slab being written.                          *)
(*                                                                         *)
(* The steps that write a base-parent block: a producer's early copy of    *)
(* position k[p] of node cur_node[p], and the consumer's patch of the      *)
(* positions whose bit is set.                                             *)
(***************************************************************************)
EarlyCopyStep(p) ==
    /\ InPass
    /\ ppc[p] = "base"
    /\ k'[p] = k[p] + 1
    /\ ParentReady(ParentCache(cur_node[p] * DEGREE + k[p]), cur_consumer)

LatePatchStep ==
    /\ InPass
    /\ cpc = "patch"
    /\ cpc' = "hash"

\* The claim as stated, in the passes that have a previous slab
C25_BaseParentsFromPrevious ==
    [][layer > 1 =>
         /\ \A p \in Producers : EarlyCopyStep(p) =>
               ParentBlock(ring_buf'[SlotOf(cur_node[p])], k[p]) =
                  AsByteSlice(exp_labels[ParentCache(cur_node[p] * DEGREE + k[p])])
         /\ LatePatchStep =>
               \A kk \in 0..(BASE_DEGREE - 1) :
                  BitMaskGet(base_parent_missing[cur_slot], kk) =>
                     ParentBlock(ring_buf'[cur_slot], kk) =
                        AsByteSlice(exp_labels[ParentCache(cur_parent_ptr_offset + kk)])
      ]_vars

\* Base-parent label bytes are taken from the slab being written
\* (layer_labels), by the early copy and by the late patch, in every layer;
\* only the expander-parent blocks, positions BASE_DEGREE..DEGREE-1 of a
\* slot in a layer past the first, hold labels of exp_labels
C25_BaseParentsFromCurrent ==
    /\ []((InPass /\ cpc = "hash" /\ layer > 1) =>
            \A kk \in BASE_DEGREE..(DEGREE - 1) :
               ParentBlock(ring_buf[cur_slot], kk) =
                  AsByteSlice(exp_labels[ParentCache(i * DEGREE + kk)]))
    /\ [][/\ \A p \in Producers : EarlyCopyStep(p) =>
               ParentBlock(ring_buf'[SlotOf(cur_node[p])], k[p]) =
                  AsByteSlice(layer_labels[ParentCache(cur_node[p] * DEGREE + k[p])])
          /\ LatePatchStep =>
               \A kk \in 0..(BASE_DEGREE - 1) :
                  BitMaskGet(base_parent_missing[cur_slot], kk) =>
                     ParentBlock(ring_buf'[cur_slot], kk) =
                        AsByteSlice(layer_labels[ParentCache(cur_parent_ptr_offset + kk)])
         ]_vars

\* In a pass with a previous slab the consumer has patched the slot of a
\* node past MIN_BASE_PARENT_NODE whose first base parent has another label
\* in the previous slab, and a producer is about to copy early a parent
\* whose two labels differ as well
C25_Witness ==
    /\ InPass
    /\ layer > 1
    /\ cpc = "hash"
    /\ i > MIN_BASE_PARENT_NODE
    /\ BitMaskGet(base_parent_missing[cur_slot], 0)
    /\ ParentBlock(ring_buf[cur_slot], 0) # AsByteSlice(exp_labels[ParentCache(i * DEGREE)])
    /\ \E p \in Producers :
          /\ ppc[p] = "base"
          /\ LET parent == ParentCache(cur_node[p] * DEGREE + k[p])
             IN  /\ ParentReady(parent, cur_consumer)
                 /\ layer_labels[parent] # exp_labels[parent]

(***************************************************************************)
(* C28.  The SHA-256 length stamp is consistent: for v >= 1 the number of  *)
(* message bytes before the 0x80 marker is 1248 in both hash paths (layer  *)
(* 1: 64 + 6 * 192 + 32; layer > 1: 64 + 2 * 448 + 288), the marker is     *)
(* placed immediately after the last message byte, the remaining bytes of  *)
(* the final 64-byte block are zero, and its last two bytes are 0x27,      *)
(* 0x00 (0x2700 bits).                                                     *)
(***************************************************************************)
\* The bytes compressed before the marker: the prefix block of fill_buffer,
\* the rounds over the parents, and the final call up to the padding
MessageBytes(cur_layer) ==
    64 + (Rounds(cur_layer) * RoundBlocks(cur_layer) * 64)
       + (PadOffset(cur_layer) - 64)

\* The offset in the slot at which the final call of compress256 ends
FinalEnd(cur_layer) == 64 + (FinalBlocks(cur_layer) * 64)

C28_LengthStamp ==
    (InPass /\ cpc = "finalize") =>
       LET buf == ring_buf[cur_slot]
           pad == PadOffset(layer)
           end == FinalEnd(layer)
       IN  /\ MessageBytes(layer) = 1248
           /\ end - 64 <= pad
           /\ pad < end - 8
           /\ buf[pad + 1] = 128
           /\ \A o \in (pad + 1)..(end - 3) : buf[o + 1] = 0
           /\ buf[end - 1] = 39
           /\ buf[end] = 0
           /\ BeValue(SubSeq(buf, end - 7, end)) = 8 * MessageBytes(layer)

\* The consumer has hashed the last node of a layer past the first, and the
\* message byte before the marker is not zero
C28_Witness ==
    /\ InPass
    /\ cpc = "finalize"
    /\ layer > 1
    /\ i = NumNodes - 1
    /\ ring_buf[cur_slot][PadOffset(layer)] # 0
    /\ ring_buf[cur_slot][PadOffset(layer) + 1] = 128

(***************************************************************************)
(* C24.  Missing-parent bitmask: for every node v >= 1 and base-parent     *)
(* position k in 0..4, after a producer has prefilled v's slot, bit k of   *)
(* the slot's mask is 1 exactly when parent p_k was >= cur_consumer at the *)
(* moment the producer examined it; when the bit is 0 the producer has     *)
(* copied the parent's label into slot bytes [64 + 32k, 64 + 32(k + 1)).   *)
(*                                                                         *)
(* The steps that decide bit k: the examination of position k[p] in the    *)
(* loop over the base parents (nodes past MIN_BASE_PARENT_NODE), and the   *)
(* marking of all positions at once (the other nodes).                     *)
(***************************************************************************)
ExamineStep(p) ==
    /\ InPass
    /\ ppc[p] = "base"
    /\ k'[p] = k[p] + 1

MarkAllStep(p) ==
    /\ InPass
    /\ ppc[p] = "fill"
    /\ ppc'[p] = "exp"

\* The claim as stated: on the step that decides it, bit k is left set
\* exactly when the parent is >= cur_consumer, and a clear bit comes with
\* the copy of the parent's label
C24_MaskExact ==
    [][\A p \in Producers :
          LET v == cur_node[p]
              s == SlotOf(v)
          IN  /\ ExamineStep(p) =>
                    LET parent == ParentCache(v * DEGREE + k[p])
                    IN  /\ BitMaskGet(base_parent_missing'[s], k[p])
                             <=> parent >= cur_consumer
                        /\ ~BitMaskGet(base_parent_missing'[s], k[p]) =>
                              ParentBlock(ring_buf'[s], k[p]) =
                                 AsByteSlice(layer_labels[parent])
              /\ MarkAllStep(p) =>
                    \A kk \in 0..(BASE_DEGREE - 2) :
                       BitMaskGet(base_parent_missing'[s], kk)
                          <=> ParentCache(v * DEGREE + kk) >= cur_consumer
      ]_vars

\* What holds: only nodes past MIN_BASE_PARENT_NODE are examined, at
\* positions 0..4; a parent found >= cur_consumer gets its bit set and the
\* slot is left as it is; a parent found below cur_consumer has its label
\* copied into its block and the mask is left as it is (a bit that an
\* earlier occupant of the slot left set stays set); a node up to
\* MIN_BASE_PARENT_NODE gets all six bits without any examination
C24_MaskSound ==
    [][\A p \in Producers :
          LET v == cur_node[p]
              s == SlotOf(v)
          IN  /\ ExamineStep(p) =>
                    LET parent == ParentCache(v * DEGREE + k[p])
                    IN  /\ v > MIN_BASE_PARENT_NODE
                        /\ k[p] \in 0..(BASE_DEGREE - 2)
                        /\ BitMaskGet(base_parent_missing[s], 5)
                        /\ IF parent >= cur_consumer
                           THEN /\ BitMaskGet(base_parent_missing'[s], k[p])
                                /\ ring_buf'[s] = ring_buf[s]
                           ELSE /\ ParentBlock(ring_buf'[s], k[p]) =
                                      AsByteSlice(layer_labels[parent])
                                /\ base_parent_missing'[s] =
                                      base_parent_missing[s]
              /\ MarkAllStep(p) =>
                    /\ v <= MIN_BASE_PARENT_NODE
                    /\ \A kk \in 0..(BASE_DEGREE - 1) :
                          BitMaskGet(base_parent_missing'[s], kk)
      ]_vars

\* A producer examines a parent that is the node the consumer is working
\* on, while another position of the same node holds a label it has copied
\* early under a bit that is set
C24_Witness ==
    \E p \in Producers :
       LET v == cur_node[p]
           s == SlotOf(v)
       IN  /\ InPass
           /\ ppc[p] = "base"
           /\ k[p] > 0
           /\ v > MIN_BASE_PARENT_NODE
           /\ ParentCache(v * DEGREE + k[p]) = cur_consumer
           /\ \E kk \in 0..(k[p] - 1) :
                 /\ ParentCache(v * DEGREE + kk) < cur_consumer
                 /\ BitMaskGet(base_parent_missing[s], kk)
                 /\ ParentBlock(ring_buf[s], kk) =
                       AsByteSlice(layer_labels[ParentCache(v * DEGREE + kk)])
                 /\ layer_labels[ParentCache(v * DEGREE + kk)] # ZeroLabel

(***************************************************************************)
(* C30.  NSE layer schedule: encode_with_trees and decode compute exactly  *)
(* 1 mask layer, num_expander_layers expander layers,                      *)
(* num_butterfly_layers - 1 butterfly layers, and then one butterfly       *)
(* encode (resp. decode) layer, in that order, with strictly increasing    *)
(* layer indices, each layer taking as input the output of the immediately *)
(* preceding layer.                                                        *)
(***************************************************************************)
\* The number of layers of a kind in the schedule
KindCount(kind) ==
    Cardinality({j \in 1..Len(nse_sched) : nse_sched[j].kind = kind})

\* encode_with_trees has computed its last layer; decode has returned
ScheduleComplete == nse_pc \in {"enc_tree", "encoded", "decoded"}

\* The last layer of the call in progress
LastKind == IF nse_pc = "decoded" THEN "decode" ELSE "encode"

\* The order of the layers, their indices and their inputs, in every state
ScheduleInOrder ==
    \A j \in 1..Len(nse_sched) :
       /\ nse_sched[j].index = j
       /\ j > 1 => nse_sched[j].input = nse_sched[j - 1].output
       /\ \A h \in 1..(j - 1) :
             \/ nse_sched[h].kind = "mask"
             \/ nse_sched[h].kind = "expander" /\ nse_sched[j].kind # "mask"
             \/ /\ nse_sched[h].kind = "butterfly"
                /\ nse_sched[j].kind \in {"butterfly", "encode", "decode"}

\* The claim as stated: num_expander_layers expander layers
C30_ScheduleAsStated ==
    /\ ScheduleInOrder
    /\ ScheduleComplete =>
          /\ KindCount("mask") = 1
          /\ KindCount("expander") = nse_cfg.exp
          /\ KindCount("butterfly") = nse_cfg.bfly - 1
          /\ KindCount(LastKind) = 1
          /\ nse_sched[Len(nse_sched)].kind = LastKind

\* The schedule of both calls: the mask layer (index 1), the expander
\* layers 2..num_expander_layers (num_expander_layers - 1 of them), the
\* butterfly layers num_expander_layers + 1..num_layers - 1
\* (num_butterfly_layers - 1 of them), then the encoding (resp. decoding)
\* layer with index num_layers; indices increase by one and each layer's
\* input is the output of the layer before; no layer function rejects the
\* index it is called with
C30_Schedule ==
    /\ ScheduleInOrder
    /\ nse_pc \in {"enc_expander", "dec_expander"} =>
          ExpanderLayerOk(nse_cfg, nse_layer)
    /\ nse_pc \in {"enc_butterfly", "dec_butterfly"} =>
          ButterflyLayerOk(nse_cfg, nse_layer)
    /\ nse_pc \in {"enc_last", "dec_last"} =>
          /\ nse_layer = NumLayers(nse_cfg)
          /\ Len(nse_sched) = NumLayers(nse_cfg) - 1
    /\ ScheduleComplete =>
          /\ Len(nse_sched) = NumLayers(nse_cfg)
          /\ KindCount("mask") = 1
          /\ nse_sched[1].kind = "mask"
          /\ KindCount("expander") = nse_cfg.exp - 1
          /\ KindCount("butterfly") = nse_cfg.bfly - 1
          /\ KindCount(LastKind) = 1
          /\ nse_sched[Len(nse_sched)].kind = LastKind
          /\ nse_sched[Len(nse_sched)].index = NumLayers(nse_cfg)

\* decode has returned for a config with an expander layer and a butterfly
\* layer between the mask and the last layer, whose outputs all differ
C30_Witness ==
    /\ nse_pc = "decoded"
    /\ nse_cfg.exp = MaxExpanderLayers
    /\ nse_cfg.bfly = MaxButterflyLayers
    /\ KindCount("expander") >= 1
    /\ KindCount("butterfly") >= 1
    /\ \A j \in 2..Len(nse_sched) :
          nse_sched[j].output # nse_sched[j - 1].output

(***************************************************************************)
(* One call of mask_layer, expander_layer, butterfly_layer,                *)
(* butterfly_encode_layer or butterfly_decode_layer, on buffers of any     *)
(* length.  A buffer is a sequence of nodes: its length in bytes is its    *)
(* number of nodes times NODE_SIZE, config.window_size() is NseWindowNodes *)
(* nodes.                                                                  *)
(***************************************************************************)
LayerFunctions == {"mask", "expander", "butterfly", "encode", "decode"}

\* A layer_in buffer of len nodes
LayerInOfLen(len) == [n \in 1..len |-> n % (NseRawRange \div 4)]

\* The layer_out and data buffers: field elements and values that are none
LayerOutBuffers ==
    UNION {[1..len -> {1, NseFieldModulus}] :
              len \in (NseWindowNodes - 1)..(NseWindowNodes + 1)}

\* A faulty check: buffers longer than the window are let through
LayerSizesOk_AtLeast(layer_in, layer_out) ==
    /\ Len(layer_in) >= NseWindowNodes
    /\ Len(layer_out) >= NseWindowNodes

\* ensure!(layer_in.len() == layer_out.len());
\* ensure!(layer_out.len() == config.window_size())
LayerSizesOk(layer_in, layer_out) ==
    /\ Len(layer_in) = Len(layer_out)
    /\ Len(layer_out) = NseWindowNodes

\* mask_layer: ensure!(layer_out.len() == config.window_size())
MaskSizeOk(layer_out) == Len(layer_out) = NseWindowNodes

LcInit ==
    /\ PipelineIdle
    /\ ExtIdle
    /\ SyIdle
    /\ HpIdle
    /\ NseIdle
    /\ ExIdle
    /\ SealIdle
    /\ lc_pc = "call"
    /\ lc_call \in
          [fn : LayerFunctions,
           cfg : [exp : 1..MaxExpanderLayers, bfly : 1..MaxButterflyLayers],
           layer_index : 0..(MaxExpanderLayers + MaxButterflyLayers + 1),
           window : {0, 3},
           layer_in : {LayerInOfLen(len) :
                          len \in (NseWindowNodes - 1)..(NseWindowNodes + 1)},
           before : LayerOutBuffers]
    /\ lc_out = lc_call.before
    /\ lc_res = "none"

\* The function returns res and leaves out in the buffer
LcReturn(res, out) ==
    /\ lc_pc' = "ret"
    /\ lc_res' = res
    /\ lc_out' = out
    /\ UNCHANGED <<pipe_vars, hp_vars, nse_vars, ex_vars, seal_vars, sy_vars,
                   ext_vars>>
    /\ UNCHANGED lc_call

MaskLayerCall ==
    /\ lc_pc = "call"
    /\ lc_call.fn = "mask"
    /\ IF ~MaskSizeOk(lc_out) THEN LcReturn("err", lc_out)
       ELSE LcReturn("ok", MaskLayer(lc_call.window))

ExpanderLayerCall ==
    /\ lc_pc = "call"
    /\ lc_call.fn = "expander"
    /\ IF ~LayerSizesOk(lc_call.layer_in, lc_out) THEN LcReturn("err", lc_out)
       ELSE IF ~ExpanderLayerOk(lc_call.cfg, lc_call.layer_index)
       THEN LcReturn("err", lc_out)
       ELSE LcReturn("ok", ExpanderLayer(lc_call.window, lc_call.layer_index,
                                         lc_call.layer_in))

ButterflyLayerCall ==
    /\ lc_pc = "call"
    /\ lc_call.fn = "butterfly"
    /\ IF ~LayerSizesOk(lc_call.layer_in, lc_out) THEN LcReturn("err", lc_out)
       ELSE IF ~ButterflyLayerOk(lc_call.cfg, lc_call.layer_index)
       THEN LcReturn("err", lc_out)
       ELSE LcReturn("ok", ButterflyLayer(lc_call.window, lc_call.layer_index,
                                          lc_call.layer_in))

\* butterfly_encode_decode_layer with the operation op
ButterflyEncodeDecodeLayerCall(op) ==
    IF ~LayerSizesOk(lc_call.layer_in, lc_out) THEN LcReturn("err", lc_out)
    ELSE IF ~EncodeLayerOk(lc_call.cfg, lc_call.layer_index)
    THEN LcReturn("err", lc_out)
    ELSE LET res == EncodeDecodeNodes(lc_call.window, lc_call.layer_index,
                                      lc_call.layer_in, lc_out, op, 0)
         IN  LcReturn(IF res.ok THEN "ok" ELSE "err", res.data)

ButterflyEncodeLayerCall ==
    /\ lc_pc = "call"
    /\ lc_call.fn = "encode"
    /\ ButterflyEncodeDecodeLayerCall("encode")

ButterflyDecodeLayerCall ==
    /\ lc_pc = "call"
    /\ lc_call.fn = "decode"
    /\ ButterflyEncodeDecodeLayerCall("decode")

LcNext ==
    \/ MaskLayerCall
    \/ ExpanderLayerCall
    \/ ButterflyLayerCall
    \/ ButterflyEncodeLayerCall
    \/ ButterflyDecodeLayerCall

LcSpec == LcInit /\ [][LcNext]_vars

(***************************************************************************)
(* C22.  Layer-size validation: mask_layer, expander_layer,                *)
(* butterfly_layer and the butterfly encode/decode layer return an error   *)
(* whenever the output (or data) buffer length differs from                *)
(* config.window_size() or layer_in has a different length, and then the   *)
(* output/data buffer is left unmodified.                                  *)
(***************************************************************************)
\* The lengths of the call do not fit
SizeMismatch ==
    \/ Len(lc_call.before) # NseWindowNodes
    \/ lc_call.fn # "mask" /\ Len(lc_call.layer_in) # Len(lc_call.before)

C22_SizeMismatchRejected ==
    (lc_pc = "ret" /\ SizeMismatch) =>
       /\ lc_res = "err"
       /\ lc_out = lc_call.before

\* expander_layer has returned from a call with a valid layer index and a
\* layer_in of the window size, whose layer_out was one node too long
C22_Witness ==
    /\ lc_pc = "ret"
    /\ lc_call.fn = "expander"
    /\ ExpanderLayerOk(lc_call.cfg, lc_call.layer_index)
    /\ Len(lc_call.layer_in) = NseWindowNodes
    /\ Len(lc_call.before) = NseWindowNodes + 1
    /\ lc_res = "err"

(***************************************************************************)
(* The synchronisation of one layer pass, for any stride, lookahead,       *)
(* number of nodes and number of producers: create_label_runner and the    *)
(* consumer loop of create_layer_labels reduced to the three cursors.  The *)
(* filling of a slot and the hashing of a node are single steps; the       *)
(* parent cache is left out.  A thread that sleeps in a wait loop has no   *)
(* step until the condition of the loop fails.                             *)
(***************************************************************************)
SyMaxStride == 3

SyMaxLookahead == 3

SyMaxNodes == 5

\* sdr_parents_cache_size of the settings
SyCacheSizes == {2}

SyProducers == 1..sy_cfg.num_producers

\* cache_window_nodes: sdr_parents_cache_size for encoding, half of it for
\* decoding
CacheWindowNodes(cfg) ==
    IF cfg.caller = "encoding" THEN cfg.sdr_parents_cache_size
    ELSE cfg.sdr_parents_cache_size \div 2

SyInit ==
    /\ PipelineIdle
    /\ ExtIdle
    /\ HpIdle
    /\ NseIdle
    /\ ExIdle
    /\ SealIdle
    /\ LcIdle
    /\ sy_opc = "setup"
    /\ sy_cfg \in [producer_stride : 1..SyMaxStride,
                   lookahead : 1..SyMaxLookahead,
                   num_nodes : 2..SyMaxNodes,
                   num_producers : 1..NumProducers,
                   caller : {"encoding", "decoding"},
                   sdr_parents_cache_size : SyCacheSizes,
                   setup_fails : BOOLEAN]
    /\ sy_cur_consumer = 0
    /\ sy_cur_producer = 0
    /\ sy_cur_awaiting = 1
    /\ sy_ppc = [p \in SyProducers |-> "off"]
    /\ sy_work = [p \in SyProducers |-> 0]
    /\ sy_count = [p \in SyProducers |-> 0]
    /\ sy_cur_node = [p \in SyProducers |-> 0]
    /\ sy_cpc = "off"
    /\ sy_i = 0
    /\ sy_ready_count = 0
    /\ sy_claims = {}
    /\ sy_prefills = [v \in 0..(SyMaxNodes + SyMaxStride) |-> 0]

\* create_labels_for_encoding / create_labels_for_decoding up to the first
\* create_layer_labels: the settings, setup_create_label_memory(..)?, the
\* atomics, the spawning of the producers
SySetup ==
    /\ sy_opc = "setup"
    /\ IF sy_cfg.setup_fails
       THEN /\ sy_opc' = "error"
            /\ UNCHANGED <<sy_ppc, sy_cpc>>
       ELSE /\ sy_opc' = "pass"
            /\ sy_ppc' = [p \in SyProducers |-> "claim"]
            /\ sy_cpc' = "node0"
    /\ UNCHANGED <<pipe_vars, hp_vars, nse_vars, ex_vars, seal_vars,
                   lc_vars, ext_vars>>
    /\ UNCHANGED <<sy_cfg, sy_cur_consumer, sy_cur_producer, sy_cur_awaiting,
                   sy_work, sy_count, sy_cur_node, sy_i, sy_ready_count,
                   sy_claims, sy_prefills>>

\* A faulty count: the last stride is not truncated
SyStrideCount_Full(w, stride, num_nodes) == stride

\* let count = if work + stride > num_nodes { num_nodes - work } else { stride }
SyStrideCount(w, stride, num_nodes) ==
    IF w + stride > num_nodes THEN num_nodes - w ELSE stride

\* let work = cur_awaiting.fetch_add(stride); if work >= num_nodes { break }
SyClaim(p) ==
    LET w == sy_cur_awaiting
        c == SyStrideCount(w, sy_cfg.producer_stride, sy_cfg.num_nodes)
    IN  /\ sy_opc = "pass"
        /\ sy_ppc[p] = "claim"
        /\ sy_cur_awaiting' = sy_cur_awaiting + sy_cfg.producer_stride
        /\ sy_work' = [sy_work EXCEPT ![p] = w]
        /\ IF w >= sy_cfg.num_nodes
           THEN /\ sy_ppc' = [sy_ppc EXCEPT ![p] = "done"]
                /\ UNCHANGED <<sy_count, sy_cur_node, sy_claims>>
           ELSE /\ sy_ppc' = [sy_ppc EXCEPT ![p] = "fill"]
                /\ sy_count' = [sy_count EXCEPT ![p] = c]
                /\ sy_cur_node' = [sy_cur_node EXCEPT ![p] = w]
                /\ sy_claims' = sy_claims \cup
                                   {[producer |-> p, work |-> w, count |-> c]}
        /\ UNCHANGED <<pipe_vars, hp_vars, nse_vars, ex_vars, seal_vars,
                       lc_vars, ext_vars>>
        /\ UNCHANGED <<sy_opc, sy_cfg, sy_cur_consumer, sy_cur_producer,
                       sy_cpc, sy_i, sy_ready_count, sy_prefills>>

\* A faulty wait: one node more than the ring has slots is let through
SySlotFree_OffByOne(node, consumer, lookahead) ==
    ~(node > consumer + lookahead)

\* while cur_node > cur_consumer + lookahead - 1 { sleep }
SySlotFree(node, consumer, lookahead) ==
    ~(node > consumer + lookahead - 1)

\* for cur_node in work..work + count { wait for the slot; fill_buffer }
SyFill(p) ==
    /\ sy_opc = "pass"
    /\ sy_ppc[p] = "fill"
    /\ SySlotFree(sy_cur_node[p], sy_cur_consumer, sy_cfg.lookahead)
    /\ sy_prefills' = [sy_prefills EXCEPT ![sy_cur_node[p]] = @ + 1]
    /\ sy_cur_node' = [sy_cur_node EXCEPT ![p] = @ + 1]
    /\ sy_ppc' = [sy_ppc EXCEPT ![p] =
          IF sy_cur_node[p] + 1 < sy_work[p] + sy_count[p] THEN "fill"
          ELSE "barrier"]
    /\ UNCHANGED <<pipe_vars, hp_vars, nse_vars, ex_vars, seal_vars,
                   lc_vars, ext_vars>>
    /\ UNCHANGED <<sy_opc, sy_cfg, sy_cur_consumer, sy_cur_producer,
                   sy_cur_awaiting, sy_work, sy_count, sy_cpc, sy_i,
                   sy_ready_count, sy_claims>>

\* while work > cur_producer + 1 { sleep }; cur_producer.fetch_add(count)
SyPublish(p) ==
    /\ sy_opc = "pass"
    /\ sy_ppc[p] = "barrier"
    /\ ~(sy_work[p] > sy_cur_producer + 1)
    /\ sy_cur_producer' = sy_cur_producer + sy_count[p]
    /\ sy_ppc' = [sy_ppc EXCEPT ![p] = "claim"]
    /\ UNCHANGED <<pipe_vars, hp_vars, nse_vars, ex_vars, seal_vars,
                   lc_vars, ext_vars>>
    /\ UNCHANGED <<sy_opc, sy_cfg, sy_cur_consumer, sy_cur_awaiting, sy_work,
                   sy_count, sy_cur_node, sy_cpc, sy_i, sy_ready_count,
                   sy_claims, sy_prefills>>

\* node 0; cur_consumer.store(1); let mut i = 1
SyNode0 ==
    /\ sy_opc = "pass"
    /\ sy_cpc = "node0"
    /\ sy_cur_consumer' = 1
    /\ sy_i' = 1
    /\ sy_cpc' = IF 1 < sy_cfg.num_nodes THEN "wait" ELSE "join"
    /\ UNCHANGED <<pipe_vars, hp_vars, nse_vars, ex_vars, seal_vars,
                   lc_vars, ext_vars>>
    /\ UNCHANGED <<sy_opc, sy_cfg, sy_cur_producer, sy_cur_awaiting, sy_ppc,
                   sy_work, sy_count, sy_cur_node, sy_ready_count, sy_claims,
                   sy_prefills>>

\* while producer_val < i { sleep }; ready_count = producer_val - i + 1
SyConsWait ==
    /\ sy_opc = "pass"
    /\ sy_cpc = "wait"
    /\ ~(sy_cur_producer < sy_i)
    /\ sy_ready_count' = sy_cur_producer - sy_i + 1
    /\ sy_cpc' = "node"
    /\ UNCHANGED <<pipe_vars, hp_vars, nse_vars, ex_vars, seal_vars,
                   lc_vars, ext_vars>>
    /\ UNCHANGED <<sy_opc, sy_cfg, sy_cur_consumer, sy_cur_producer,
                   sy_cur_awaiting, sy_ppc, sy_work, sy_count, sy_cur_node,
                   sy_i, sy_claims, sy_prefills>>

\* one node of the batch: hash it; cur_consumer.fetch_add(1); i += 1
SyConsNode ==
    /\ sy_opc = "pass"
    /\ sy_cpc = "node"
    /\ sy_cur_consumer' = sy_cur_consumer + 1
    /\ sy_i' = sy_i + 1
    /\ sy_ready_count' = sy_ready_count - 1
    /\ sy_cpc' = IF sy_ready_count - 1 > 0 THEN "node"
                 ELSE IF sy_i + 1 < sy_cfg.num_nodes THEN "wait"
                 ELSE "join"
    /\ UNCHANGED <<pipe_vars, hp_vars, nse_vars, ex_vars, seal_vars,
                   lc_vars, ext_vars>>
    /\ UNCHANGED <<sy_opc, sy_cfg, sy_cur_producer, sy_cur_awaiting, sy_ppc,
                   sy_work, sy_count, sy_cur_node, sy_claims, sy_prefills>>

\* for runner in runners { runner.join() }
SyJoin ==
    /\ sy_opc = "pass"
    /\ sy_cpc = "join"
    /\ \A p \in SyProducers : sy_ppc[p] = "done"
    /\ sy_opc' = "joined"
    /\ sy_cpc' = "done"
    /\ UNCHANGED <<pipe_vars, hp_vars, nse_vars, ex_vars, seal_vars,
                   lc_vars, ext_vars>>
    /\ UNCHANGED <<sy_cfg, sy_cur_consumer, sy_cur_producer, sy_cur_awaiting,
                   sy_ppc, sy_work, sy_count, sy_cur_node, sy_i,
                   sy_ready_count, sy_claims, sy_prefills>>

SyNext ==
    \/ SySetup
    \/ \E p \in SyProducers : SyClaim(p)
    \/ \E p \in SyProducers : SyFill(p)
    \/ \E p \in SyProducers : SyPublish(p)
    \/ SyNode0
    \/ SyConsWait
    \/ SyConsNode
    \/ SyJoin

SySpec == SyInit /\ [][SyNext]_vars

\* Some thread takes a step whenever some thread can
SyFairSpec == SySpec /\ WF_vars(SyNext)

(***************************************************************************)
(* C23.  The producer stride is validated at construction:                 *)
(* create_labels_for_encoding / create_labels_for_decoding reject, before  *)
(* any thread starts, a configuration in which the producer stride exceeds *)
(* the parent-cache window (sdr_parents_cache_size nodes).                 *)
(***************************************************************************)
C23_StrideValidated ==
    sy_opc \in {"pass", "joined"} =>
       sy_cfg.producer_stride <= CacheWindowNodes(sy_cfg)

(***************************************************************************)
(* C26.  Stride claiming partitions the work: every node in [1, N) is      *)
(* claimed by exactly one producer and prefilled exactly once; the claimed *)
(* ranges are disjoint and contiguous ([1, 1 + stride), [1 + stride,       *)
(* 1 + 2 stride), ...), the last range is truncated at N, and no producer  *)
(* prefills node 0 or a node >= N even though cur_awaiting may grow past   *)
(* N.                                                                      *)
(***************************************************************************)
\* The nodes of a claimed range
ClaimedNodes(c) == c.work..(c.work + c.count - 1)

C26_StridePartition ==
    sy_opc \in {"pass", "joined"} =>
       LET n == sy_cfg.num_nodes
           stride == sy_cfg.producer_stride
       IN  /\ \A c \in sy_claims :
                 /\ c.work >= 1
                 /\ (c.work - 1) % stride = 0
                 /\ c.count >= 1
                 /\ c.count = IF c.work + stride > n THEN n - c.work
                              ELSE stride
                 /\ ClaimedNodes(c) \subseteq 1..(n - 1)
                 /\ c.work > 1 =>
                       \E b \in sy_claims : b.work + b.count = c.work
           /\ \A c \in sy_claims : \A b \in sy_claims :
                 c # b => ClaimedNodes(c) \cap ClaimedNodes(b) = {}
           /\ \A v \in DOMAIN sy_prefills :
                 /\ sy_prefills[v] <= 1
                 /\ sy_prefills[v] = 1 =>
                       /\ v \in 1..(n - 1)
                       /\ \E c \in sy_claims : v \in ClaimedNodes(c)
           /\ \A p \in SyProducers :
                 sy_ppc[p] \in {"fill", "barrier"} =>
                    /\ [producer |-> p, work |-> sy_work[p],
                        count |-> sy_count[p]] \in sy_claims
                    /\ \A v \in ClaimedNodes([work |-> sy_work[p],
                                              count |-> sy_count[p]]) :
                          sy_prefills[v] = IF v < sy_cur_node[p] THEN 1 ELSE 0
           /\ sy_opc = "joined" =>
                 \A v \in 1..(n - 1) :
                    /\ sy_prefills[v] = 1
                    /\ Cardinality({c \in sy_claims : v \in ClaimedNodes(c)}) = 1

\* A pass of two producers has ended; each of them had claimed a stride,
\* the last stride was truncated, and cur_awaiting has grown past N
C26_Witness ==
    /\ sy_opc = "joined"
    /\ sy_cfg.num_producers = 2
    /\ sy_cfg.producer_stride > 1
    /\ sy_cur_awaiting > sy_cfg.num_nodes + sy_cfg.producer_stride
    /\ \E c \in sy_claims : c.producer = 1
    /\ \E c \in sy_claims : c.producer = 2
    /\ \E c \in sy_claims : c.count < sy_cfg.producer_stride

(***************************************************************************)
(* C27.  Ignoring the parent cache, a layer pass reaches a deadlock state  *)
(* if and only if some claimed stride contains more than lookahead nodes;  *)
(* with stride <= lookahead no reachable state has all threads blocked     *)
(* before the pass is complete, for any number of producers.               *)
(***************************************************************************)
\* Producer p sleeps in one of its two wait loops
SyProducerBlocked(p) ==
    \/ /\ sy_ppc[p] = "fill"
       /\ ~SySlotFree(sy_cur_node[p], sy_cur_consumer, sy_cfg.lookahead)
    \/ /\ sy_ppc[p] = "barrier"
       /\ sy_work[p] > sy_cur_producer + 1

\* The consumer sleeps in its wait loop, or waits in join for a producer
SyConsumerBlocked ==
    \/ sy_cpc = "wait" /\ sy_cur_producer < sy_i
    \/ sy_cpc = "join" /\ \E p \in SyProducers : sy_ppc[p] # "done"

\* All threads are blocked before the pass is complete
SyDeadlocked ==
    /\ sy_opc = "pass"
    /\ SyConsumerBlocked
    /\ \A p \in SyProducers : SyProducerBlocked(p) \/ sy_ppc[p] = "done"

\* Some claimed stride contains more than lookahead nodes
SyLongClaim == \E c \in sy_claims : c.count > sy_cfg.lookahead

C27_DeadlockIffLongStride ==
    /\ [](SyDeadlocked <=> (sy_opc = "pass" /\ ~ENABLED SyNext))
    /\ [](SyDeadlocked => SyLongClaim)
    /\ [](SyLongClaim => sy_opc # "joined")
    /\ [](sy_cfg.producer_stride <= sy_cfg.lookahead => ~SyDeadlocked)
    /\ SyLongClaim ~> SyDeadlocked

\* Two producers and the consumer are blocked: one producer waits for a
\* slot in a stride longer than the ring, the other waits for a slot in
\* the stride after it
C27_Witness ==
    /\ SyDeadlocked
    /\ sy_cfg.num_producers = 2
    /\ sy_cfg.lookahead > 1
    /\ \E p \in SyProducers :
          /\ sy_ppc[p] = "fill"
          /\ sy_count[p] > sy_cfg.lookahead
          /\ sy_cur_node[p] > sy_work[p]
    /\ \E p \in SyProducers : sy_ppc[p] = "fill" /\ sy_work[p] > 1

(***************************************************************************)
(* C39.  Consumer parent cursor alignment: at the start of processing      *)
(* every node i >= 1 the consumer's cur_parent_ptr_offset equals           *)
(* i * DEGREE (it starts at DEGREE and advances by BASE_DEGREE +           *)
(* EXP_DEGREE per node whether or not a bit is set), so the k-th base      *)
(* parent the consumer patches for node i is the same parent-cache entry   *)
(* (offset i * DEGREE + k) that the producer examined when prefilling      *)
(* node i.                                                                 *)
(***************************************************************************)
C39_ParentCursorAligned ==
    /\ []((InPass /\ cpc = "patch") =>
            /\ i >= 1
            /\ cur_parent_ptr_offset = i * DEGREE)
    /\ []((InPass /\ cpc \in {"hash", "finalize", "advance"}) =>
            cur_parent_ptr_offset = (i + 1) * DEGREE)
    /\ [][/\ LatePatchStep =>
               \A kk \in 0..(BASE_DEGREE - 1) :
                  BitMaskGet(base_parent_missing[cur_slot], kk) =>
                     ParentBlock(ring_buf'[cur_slot], kk) =
                        AsByteSlice(layer_labels[ParentCache(i * DEGREE + kk)])
          /\ \A p \in Producers :
               (ExamineStep(p) /\ base_parent_missing'[SlotOf(cur_node[p])]
                                     # base_parent_missing[SlotOf(cur_node[p])])
                  => BitMaskGet(base_parent_missing'[SlotOf(cur_node[p])], k[p])
         ]_vars

\* The consumer starts on the last node of the last layer, in a slot that
\* has been used before, with a base parent to patch
C39_Witness ==
    /\ InPass
    /\ cpc = "patch"
    /\ layer = Layers
    /\ i = NumNodes - 1
    /\ i > Lookahead
    /\ cur_parent_ptr_offset = (NumNodes - 1) * DEGREE
    /\ BitMaskGet(base_parent_missing[cur_slot], 0)

(***************************************************************************)
(* C40.  Within one layer pass no operation clears a bit of                *)
(* base_parent_missing: each slot's mask only grows across reuses.         *)
(* Because every node v <= MIN_BASE_PARENT_NODE marks all six base parents *)
(* missing and lookahead is smaller than MIN_BASE_PARENT_NODE, every slot  *)
(* has all six bits set from its first use on, so for every node v >= 1    *)
(* the consumer patches all six base parents itself and any base-parent    *)
(* bytes copied early by a producer are overwritten before hashing.        *)
(***************************************************************************)
AllBaseParentsMissing(m) ==
    \A kk \in 0..(BASE_DEGREE - 1) : BitMaskGet(m, kk)

C40_MaskOnlyGrows ==
    /\ [][(InPass /\ opc' = "pass") =>
            \A s \in DOMAIN base_parent_missing :
               \A kk \in 0..(BASE_DEGREE - 1) :
                  BitMaskGet(base_parent_missing[s], kk) =>
                     BitMaskGet(base_parent_missing'[s], kk)]_vars
    /\ [](InPass =>
            /\ Lookahead <= MIN_BASE_PARENT_NODE
            /\ \A p \in Producers :
                  ppc[p] \in {"base", "exp"} =>
                     AllBaseParentsMissing(
                        base_parent_missing[SlotOf(cur_node[p])])
            /\ \A v \in StartedPrefill :
                  (\A p \in Producers : ~(ppc[p] = "fill" /\ cur_node[p] = v))
                     => AllBaseParentsMissing(base_parent_missing[SlotOf(v)])
            /\ cpc \in {"patch", "hash"} =>
                  AllBaseParentsMissing(base_parent_missing[cur_slot]))
    /\ [][LatePatchStep =>
            \A kk \in 0..(BASE_DEGREE - 1) :
               ParentBlock(ring_buf'[cur_slot], kk) =
                  AsByteSlice(layer_labels[ParentCache(i * DEGREE + kk)])]_vars

\* The consumer is about to patch a node past MIN_BASE_PARENT_NODE in a
\* reused slot: a producer has copied one of its base parents early, and
\* the block of another base parent still holds other bytes than that
\* parent's label
C40_Witness ==
    /\ InPass
    /\ cpc = "patch"
    /\ i > MIN_BASE_PARENT_NODE
    /\ i > Lookahead
    /\ AllBaseParentsMissing(base_parent_missing[cur_slot])
    /\ \E kk \in 0..(BASE_DEGREE - 2) :
          /\ ParentCache(i * DEGREE + kk) # ParentCache((i - Lookahead) * DEGREE + kk)
          /\ layer_labels[ParentCache(i * DEGREE + kk)] # ZeroLabel
          /\ ParentBlock(ring_buf[cur_slot], kk) =
                AsByteSlice(layer_labels[ParentCache(i * DEGREE + kk)])
    /\ \E kk \in 0..(BASE_DEGREE - 1) :
          ParentBlock(ring_buf[cur_slot], kk) #
             AsByteSlice(layer_labels[ParentCache(i * DEGREE + kk)])

(***************************************************************************)
(* C31.  NSE layer-index validation, with E = num_expander_layers and      *)
(* B = num_butterfly_layers, for correctly sized buffers: expander_layer   *)
(* returns Ok iff 1 < layer_index <= E; butterfly_layer returns Ok iff     *)
(* E < layer_index < E + B; butterfly_encode_layer and                     *)
(* butterfly_decode_layer pass their index check iff layer_index = E + B;  *)
(* on a rejected index the output buffer is not written.                   *)
(*                                                                         *)
(* Past its index check butterfly_encode_decode_layer fails only on a data *)
(* node that is no field element.                                          *)
(***************************************************************************)
LcReturned == lc_pc = "ret"

LcSized == LayerSizesOk(lc_call.layer_in, lc_call.before)

LcNumLayers == lc_call.cfg.exp + lc_call.cfg.bfly

LcDataInField == \A n \in DOMAIN lc_call.before : lc_call.before[n] < NseFieldModulus

C31_LayerIndexValidation ==
    (LcReturned /\ LcSized) =>
       /\ lc_call.fn = "expander" =>
             /\ lc_res = "ok" <=> (1 < lc_call.layer_index
                                   /\ lc_call.layer_index <= lc_call.cfg.exp)
             /\ lc_res = "err" => lc_out = lc_call.before
       /\ lc_call.fn = "butterfly" =>
             /\ lc_res = "ok" <=> (lc_call.cfg.exp < lc_call.layer_index
                                   /\ lc_call.layer_index < LcNumLayers)
             /\ lc_res = "err" => lc_out = lc_call.before
       /\ lc_call.fn \in {"encode", "decode"} =>
             IF lc_call.layer_index = LcNumLayers
             THEN lc_res = "ok" <=> LcDataInField
             ELSE lc_res = "err" /\ lc_out = lc_call.before

\* butterfly_layer has rejected the index of the last expander layer and
\* has left the buffer as it was
C31_Witness ==
    /\ LcReturned
    /\ LcSized
    /\ lc_call.fn = "butterfly"
    /\ lc_call.cfg.bfly > 1
    /\ lc_call.layer_index = lc_call.cfg.exp
    /\ lc_res = "err"
    /\ lc_out = lc_call.before

(***************************************************************************)
(* C32.  butterfly_layer returns Ok for every layer_index in the half-open *)
(* range [num_expander_layers, num_expander_layers + num_butterfly_layers) *)
(* when layer_in and layer_out both have config.window_size() bytes.       *)
(***************************************************************************)
C32_ButterflyRangeOk ==
    (/\ LcReturned
     /\ LcSized
     /\ lc_call.fn = "butterfly"
     /\ lc_call.cfg.exp <= lc_call.layer_index
     /\ lc_call.layer_index < LcNumLayers)
       => lc_res = "ok"

(***************************************************************************)
(* create_labels_for_encoding over layer states of which some are marked   *)
(* as generated.  The contents of a slab are the layers it was derived     *)
(* from: layer 1 from nothing, layer l from the slab handed over as        *)
(* exp_labels.  A layer that is marked as generated is on disk.            *)
(***************************************************************************)
RsMaxLayers == 3

\* The labels of layer l derived from the layers before it
RsLayerContents(l) == [j \in 1..l |-> j]

\* create_layer_labels(.., if layer == 1 { None } else { Some(exp_labels) }, ..)
RsCreateLayerLabels(l, exp) == IF l = 1 THEN <<1>> ELSE Append(exp, l)

RsOthers == <<base_vars, pp_vars, ch_vars>>

RsOthersIdle == BaseIdle /\ PpIdle /\ ChIdle

RsInit ==
    /\ RsOthersIdle
    /\ rs_pc = "loop"
    /\ rs_layer_states \in
          UNION {[1..n -> BOOLEAN] : n \in 1..RsMaxLayers}
    /\ rs_read_fails \in 0..Len(rs_layer_states)
    /\ rs_layer = 1
    /\ rs_labels = <<>>
    /\ rs_layer_labels = <<>>
    /\ rs_exp_labels = <<>>
    /\ rs_disk = [l \in 1..Len(rs_layer_states) |->
                    IF rs_layer_states[l] THEN RsLayerContents(l) ELSE <<>>]
    /\ rs_used = <<>>
    /\ rs_res = "none"

\* if layer_state.generated { read_layer(&layer_state.config, &mut exp_labels)?;
\*                            continue; }
RsSkipLayer ==
    /\ rs_pc = "loop"
    /\ rs_layer <= Len(rs_layer_states)
    /\ rs_layer_states[rs_layer]
    /\ IF rs_read_fails = rs_layer
       THEN /\ rs_pc' = "done"
            /\ rs_res' = "err"
            /\ UNCHANGED <<rs_exp_labels, rs_layer>>
       ELSE /\ rs_exp_labels' = rs_disk[rs_layer]
            /\ rs_layer' = rs_layer + 1
            /\ UNCHANGED <<rs_pc, rs_res>>
    /\ UNCHANGED <<rs_layer_states, rs_read_fails, rs_labels,
                   rs_layer_labels, rs_disk, rs_used>>
    /\ UNCHANGED RsOthers

\* create_layer_labels; DiskStore::new_from_slice_with_config;
\* swap(layer_labels, exp_labels); labels.push(layer_store)
RsGenerateLayer ==
    LET new == RsCreateLayerLabels(rs_layer, rs_exp_labels)
    IN  /\ rs_pc = "loop"
        /\ rs_layer <= Len(rs_layer_states)
        /\ ~rs_layer_states[rs_layer]
        /\ rs_used' = Append(rs_used, [layer |-> rs_layer,
                                       previous |-> rs_exp_labels])
        /\ rs_disk' = [rs_disk EXCEPT ![rs_layer] = new]
        /\ rs_layer_labels' = rs_exp_labels
        /\ rs_exp_labels' = new
        /\ rs_labels' = Append(rs_labels, rs_layer)
        /\ rs_layer' = rs_layer + 1
        /\ UNCHANGED <<rs_pc, rs_layer_states, rs_read_fails, rs_res>>
        /\ UNCHANGED RsOthers

\* assert_eq!(labels.len(), layers); Ok((Labels { labels: configs }, ..))
RsReturn ==
    /\ rs_pc = "loop"
    /\ rs_layer > Len(rs_layer_states)
    /\ rs_pc' = "done"
    /\ rs_res' = IF Len(rs_labels) = Len(rs_layer_states)
                 THEN "ok" ELSE "panic"
    /\ UNCHANGED <<rs_layer_states, rs_read_fails, rs_layer, rs_labels,
                   rs_layer_labels, rs_exp_labels, rs_disk, rs_used>>
    /\ UNCHANGED RsOthers

RsNext ==
    \/ RsSkipLayer
    \/ RsGenerateLayer
    \/ RsReturn

RsSpec == RsInit /\ [][RsNext]_vars

(***************************************************************************)
(* C37.  Resumption: when layer_states marks layers as already generated,  *)
(* create_labels_for_encoding skips the pipeline for those layers, loads   *)
(* each skipped layer into exp_labels so that the next generated layer     *)
(* uses it as its previous layer, and still returns Ok with the label      *)
(* configs of all `layers` layers (the final check on the number of layers *)
(* holds).                                                                 *)
(***************************************************************************)
RsSomeGenerated == \E l \in DOMAIN rs_layer_states : rs_layer_states[l]

C37_ResumptionReturnsOk ==
    (rs_pc = "done" /\ RsSomeGenerated /\ rs_read_fails = 0) =>
       /\ rs_res = "ok"
       /\ Len(rs_labels) = Len(rs_layer_states)
       /\ \A n \in DOMAIN rs_used :
             /\ ~rs_layer_states[rs_used[n].layer]
             /\ rs_used[n].layer > 1 =>
                   rs_used[n].previous = RsLayerContents(rs_used[n].layer - 1)

\* What holds of a resumed run up to the final check: the layers marked as
\* generated are not computed, every computed layer past the first has the
\* layer before it as its previous layer, and the run panics at the check
C37_ResumptionPanics ==
    (rs_pc = "done" /\ RsSomeGenerated /\ rs_read_fails = 0) =>
       /\ rs_res = "panic"
       /\ Len(rs_labels) < Len(rs_layer_states)
       /\ \A n \in DOMAIN rs_used :
             /\ ~rs_layer_states[rs_used[n].layer]
             /\ rs_used[n].layer > 1 =>
                   rs_used[n].previous = RsLayerContents(rs_used[n].layer - 1)
       /\ \A l \in DOMAIN rs_disk : rs_disk[l] = RsLayerContents(l)

(***************************************************************************)
(* params.rs: the label stores of a replica (Labels, LabelsCache) and the  *)
(* verification of the labeling proofs and of the replica column proof of  *)
(* a window proof.  Each function is applied once to its arguments.        *)
(*                                                                         *)
(* A StoreConfig is [id, size] with size 0 for None; the DiskStore opened  *)
(* from it is [store, len].  A LabelingProof carries the label its parents *)
(* hash to, a ColumnProof the node it opens and the root it leads to.      *)
(***************************************************************************)
PpMaxLayers == 3

StoreConfigs == [id : {1, 2}, size : {0, 4}]

\* DiskStore::new_from_disk(config.size.unwrap(), &config).unwrap()
NewFromDisk(config) == [store |-> config.id, len |-> config.size]

PpPanic == [panic |-> TRUE, ok |-> FALSE, store |-> <<>>]

PpStore(st) == [panic |-> FALSE, ok |-> TRUE, store |-> st]

PpBool(b) == [panic |-> FALSE, ok |-> b, store |-> <<>>]

\* Labels::labels_for_layer, layers numbered from 1
LabelsForLayer(self_labels, layer_number) ==
    IF layer_number = 0 THEN PpPanic
    ELSE IF ~(layer_number <= Len(self_labels)) THEN PpPanic
    ELSE IF self_labels[layer_number].size = 0 THEN PpPanic
    ELSE PpStore(NewFromDisk(self_labels[layer_number]))

\* Labels::labels_for_last_layer
LabelsForLastLayer(self_labels) == LabelsForLayer(self_labels, Len(self_labels) - 1)

\* LabelsCache::new: for i in 0..labels.len() { push(labels_for_layer(i + 1)) }
LabelsCacheNew(self_labels) ==
    IF \E n \in 1..Len(self_labels) : LabelsForLayer(self_labels, n).panic
    THEN PpPanic
    ELSE PpStore([n \in 1..Len(self_labels) |-> LabelsForLayer(self_labels, n).store])

\* LabelsCache::labels_for_last_layer: &self.labels[self.labels.len() - 1]
LabelsCacheForLastLayer(cache) == PpStore(cache[Len(cache)])

\* LabelingProof::verify(replica_id, labeled_node)
LabelingProofVerify(proof, labeled_node) == proof.label = labeled_node

\* A faulty check: a labeling proof that is not expected is let through
LabelingCheck_AllowExtra(expect_challenge, labeling_proofs, layer_number, c_x) ==
    IF expect_challenge
    THEN /\ layer_number \in DOMAIN labeling_proofs
         /\ LabelingProofVerify(labeling_proofs[layer_number], c_x[layer_number])
    ELSE TRUE

\* verify_labels, the body of the loop for one layer
LabelingCheck(expect_challenge, labeling_proofs, layer_number, c_x) ==
    IF expect_challenge
    THEN /\ layer_number \in DOMAIN labeling_proofs
         /\ LabelingProofVerify(labeling_proofs[layer_number], c_x[layer_number])
    ELSE layer_number \notin DOMAIN labeling_proofs

\* verify_labels: for layer in 1..=layers, false at the first failed check
RECURSIVE VerifyLabelsFrom(_, _)
VerifyLabelsFrom(a, layer_number) ==
    IF layer_number > a.layers THEN TRUE
    ELSE IF ~LabelingCheck(a.include[layer_number], a.labeling_proofs, layer_number, a.c_x)
    THEN FALSE
    ELSE VerifyLabelsFrom(a, layer_number + 1)

VerifyLabels(a) == VerifyLabelsFrom(a, 1)

\* ColumnProof::verify(challenge, expected_root)
ColumnProofVerify(proof, challenge, expected_root) ==
    proof.node = challenge /\ proof.root = expected_root

\* iter().zip(..): the pairs up to the end of the shorter sequence
Zip(xs, ys) ==
    [n \in 1..(IF Len(xs) < Len(ys) THEN Len(xs) ELSE Len(ys)) |->
        <<xs[n], ys[n]>>]

\* iter().skip(n)
Skip(xs, n) == IF n >= Len(xs) THEN <<>> ELSE SubSeq(xs, n + 1, Len(xs))

\* ReplicaColumnProof::verify
ReplicaColumnProofVerify(a) ==
    LET expected_comm_c == a.c_x.root
        drg == Zip(a.drg_parents, a.parents)
        exp == Zip(a.exp_parents, Skip(a.parents, Len(a.drg_parents)))
    IN  /\ ColumnProofVerify(a.c_x, a.challenge, expected_comm_c)
        /\ \A n \in DOMAIN drg :
              ColumnProofVerify(drg[n][1], drg[n][2], expected_comm_c)
        /\ \A n \in DOMAIN exp :
              ColumnProofVerify(exp[n][1], exp[n][2], expected_comm_c)

PpFunctions ==
    {"Labels::labels_for_last_layer", "LabelsCache::labels_for_last_layer",
     "verify_labels", "ReplicaColumnProof::verify"}

LabelsArgs ==
    UNION {[1..n -> StoreConfigs] : n \in 1..PpMaxLayers}

LabelingProofs == [label : {5, 6}]

VerifyLabelsArgs ==
    UNION {[layers : {n},
            include : [1..n -> BOOLEAN],
            c_x : {[l \in 1..n |-> 5], [l \in 1..n |-> 5 + (l % 2)]},
            labeling_proofs :
               UNION {[keys -> LabelingProofs] : keys \in SUBSET (0..(n + 1))}] :
           n \in 1..PpMaxLayers}

ColumnProofs == [node : 1..3, root : {7, 8}]

ColumnProofSeqs == UNION {[1..n -> ColumnProofs] : n \in 0..2}

ReplicaColumnArgs ==
    [challenge : {3},
     parents : {<<1, 2>>},
     c_x : ColumnProofs,
     drg_parents : ColumnProofSeqs,
     exp_parents : ColumnProofSeqs]

PpOthers == <<base_vars, rs_vars, ch_vars>>

PpOthersIdle == BaseIdle /\ RsIdle /\ ChIdle

PpInit ==
    /\ PpOthersIdle
    /\ pp_pc = "call"
    /\ pp_fn \in PpFunctions
    /\ \/ /\ pp_fn \in {"Labels::labels_for_last_layer",
                        "LabelsCache::labels_for_last_layer"}
          /\ pp_arg \in LabelsArgs
       \/ /\ pp_fn = "verify_labels"
          /\ pp_arg \in VerifyLabelsArgs
       \/ /\ pp_fn = "ReplicaColumnProof::verify"
          /\ pp_arg \in ReplicaColumnArgs
    /\ pp_res = <<>>

PpReturn(res) ==
    /\ pp_pc' = "ret"
    /\ pp_res' = res
    /\ UNCHANGED <<pp_fn, pp_arg>>
    /\ UNCHANGED PpOthers

LabelsForLastLayerCall ==
    /\ pp_pc = "call"
    /\ pp_fn = "Labels::labels_for_last_layer"
    /\ PpReturn(LabelsForLastLayer(pp_arg))

LabelsCacheForLastLayerCall ==
    /\ pp_pc = "call"
    /\ pp_fn = "LabelsCache::labels_for_last_layer"
    /\ LET cache == LabelsCacheNew(pp_arg)
       IN  IF cache.panic THEN PpReturn(PpPanic)
           ELSE PpReturn(LabelsCacheForLastLayer(cache.store))

VerifyLabelsCall ==
    /\ pp_pc = "call"
    /\ pp_fn = "verify_labels"
    /\ PpReturn(PpBool(VerifyLabels(pp_arg)))

ReplicaColumnProofVerifyCall ==
    /\ pp_pc = "call"
    /\ pp_fn = "ReplicaColumnProof::verify"
    /\ PpReturn(PpBool(ReplicaColumnProofVerify(pp_arg)))

PpNext ==
    \/ LabelsForLastLayerCall
    \/ LabelsCacheForLastLayerCall
    \/ VerifyLabelsCall
    \/ ReplicaColumnProofVerifyCall

PpSpec == PpInit /\ [][PpNext]_vars

PpReturned(fn) == pp_pc = "ret" /\ pp_fn = fn

(***************************************************************************)
(* C33.  Labels::labels_for_last_layer returns the store of the last layer *)
(* (layer number labels.len(), row labels.len() - 1) for every Labels with *)
(* at least one layer, i.e. the same layer that                            *)
(* LabelsCache::labels_for_last_layer returns on LabelsCache::new(&labels).*)
(***************************************************************************)
C33_LastLayerStore ==
    (/\ PpReturned("Labels::labels_for_last_layer")
     /\ \A n \in DOMAIN pp_arg : pp_arg[n].size # 0)
       => /\ ~pp_res.panic
          /\ pp_res.store = NewFromDisk(pp_arg[Len(pp_arg)])
          /\ pp_res =
                LabelsCacheForLastLayer(LabelsCacheNew(pp_arg).store)

(***************************************************************************)
(* C35.  WindowProof::verify_labels returns true iff for every layer l in  *)
(* 1..=layers, either include_challenge_at_layer(l, challenge_index) is    *)
(* true and a labeling proof for l is present and verifies against the     *)
(* column's node at layer l, or it is false and no labeling proof for l is *)
(* present; i.e. a proof with a missing or an extra labeling proof is      *)
(* rejected.                                                               *)
(***************************************************************************)
C35_VerifyLabels ==
    PpReturned("verify_labels") =>
       /\ pp_res.ok <=>
             \A l \in 1..pp_arg.layers :
                \/ /\ pp_arg.include[l]
                   /\ l \in DOMAIN pp_arg.labeling_proofs
                   /\ pp_arg.labeling_proofs[l].label = pp_arg.c_x[l]
                \/ /\ ~pp_arg.include[l]
                   /\ l \notin DOMAIN pp_arg.labeling_proofs
       /\ (\E l \in 1..pp_arg.layers :
              pp_arg.include[l] <=> l \notin DOMAIN pp_arg.labeling_proofs)
             => ~pp_res.ok

\* A proof that is right at every layer but the last, where it carries a
\* labeling proof that is not expected, has been rejected
C35_Witness ==
    /\ PpReturned("verify_labels")
    /\ pp_arg.layers > 1
    /\ ~pp_res.ok
    /\ ~pp_arg.include[pp_arg.layers]
    /\ pp_arg.layers \in DOMAIN pp_arg.labeling_proofs
    /\ \A l \in 1..(pp_arg.layers - 1) :
          /\ pp_arg.include[l]
          /\ l \in DOMAIN pp_arg.labeling_proofs
          /\ pp_arg.labeling_proofs[l].label = pp_arg.c_x[l]

(***************************************************************************)
(* C36.  ReplicaColumnProof::verify returns true only if a column proof    *)
(* has been verified against comm_c for the challenged node and for every  *)
(* one of its parents (the first drg_parents.len() entries of `parents` by *)
(* the drg proofs, the remaining ones by the exp proofs); a proof that      *)
(* carries fewer drg/exp column proofs than the node has parents is        *)
(* rejected.                                                               *)
(***************************************************************************)
C36_EveryParentVerified ==
    (PpReturned("ReplicaColumnProof::verify") /\ pp_res.ok) =>
       LET comm_c == pp_arg.c_x.root
           d == Len(pp_arg.drg_parents)
       IN  /\ ColumnProofVerify(pp_arg.c_x, pp_arg.challenge, comm_c)
           /\ d + Len(pp_arg.exp_parents) >= Len(pp_arg.parents)
           /\ \A n \in 1..Len(pp_arg.parents) :
                 IF n <= d
                 THEN ColumnProofVerify(pp_arg.drg_parents[n],
                                        pp_arg.parents[n], comm_c)
                 ELSE ColumnProofVerify(pp_arg.exp_parents[n - d],
                                        pp_arg.parents[n], comm_c)

(***************************************************************************)
(* parameter_cache.rs: CacheUsers processes call get_groth_params,         *)
(* get_verifying_key or get_param_metadata (ch_kind) for one cache entry.  *)
(* ch_dir is the cache directory, ch_entry what the entry path names       *)
(* (nothing, a directory, a regular file), ch_content the file's bytes (0  *)
(* is a byte that is not the value's), ch_holders the processes that hold  *)
(* the file's lock.                                                        *)
(***************************************************************************)
CacheUsers == 2

ChProcs == 1..CacheUsers

\* The entries of the cache: .params, .vk and .meta
CacheKinds == {"params", "vk", "meta"}

\* The bytes of the value of the entry: generate() seeds its rng
\* identically, and cache_meta is a function of the public parameters, so
\* every caller writes the same bytes
CachedValue == <<1, 2>>

\* The files a cache directory may hold for the entry: the value, the value
\* with one byte damaged, cut short, followed by other bytes, and a longer
\* file of other bytes only
CacheFiles ==
    {CachedValue, CachedValue \o <<0>>,
     SubSeq(CachedValue, 1, Len(CachedValue) - 1),
     [n \in 1..(Len(CachedValue) + 1) |-> 0]}
       \cup {[CachedValue EXCEPT ![n] = 0] : n \in 1..Len(CachedValue)}

\* What reading the entry from a file with these bytes can give (TRUE: a
\* value).  The cached value parses and an empty file does not;
\* Parameters::read and VerifyingKey::read take the value from the head of
\* the file and leave what follows unread; any other bytes may or may not
\* be a well-formed entry (serde_json::from_reader accepts white space
\* after the value and fields it does not know)
ReadOutcomes(kind, content) ==
    IF content = CachedValue THEN {TRUE}
    ELSE IF content = <<>> THEN {FALSE}
    ELSE IF /\ kind # "meta"
            /\ Len(content) >= Len(CachedValue)
            /\ SubSeq(content, 1, Len(CachedValue)) = CachedValue
    THEN {TRUE}
    ELSE BOOLEAN

\* A write of bytes at the head of a file opened without truncate: the
\* bytes replace the ones in their place and what follows them stays
Overwrite(content, bytes) ==
    [n \in 1..(IF Len(content) > Len(bytes) THEN Len(content)
               ELSE Len(bytes)) |->
       IF n <= Len(bytes) THEN bytes[n] ELSE content[n]]

\* create_dir_all(path) on the entry path: every missing component becomes
\* a directory; an existing directory is Ok, an existing file is the error
\* AlreadyExists
CreateDirAll(entry) == IF entry = "absent" THEN "dir" ELSE entry

\* A faulty lock: flock grants the lock whoever holds it
CanLockExclusive_Always(holders) == TRUE

\* f.lock_exclusive() returns when no other handle holds a lock on the file
CanLockExclusive(holders) == holders = {}

ChOthers == <<base_vars, rs_vars, pp_vars>>

ChOthersIdle == BaseIdle /\ RsIdle /\ PpIdle

ChInit ==
    /\ ChOthersIdle
    /\ ch_ppc = [p \in ChProcs |-> "ensure"]
    /\ ch_kind \in CacheKinds
    /\ \E st \in {<<"absent", "absent", <<>>>>, <<"dir", "absent", <<>>>>}
                    \cup {<<"dir", "file", f>> : f \in CacheFiles} :
          /\ ch_dir = st[1]
          /\ ch_entry = st[2]
          /\ ch_content = st[3]
    /\ ch_holders = {}
    /\ ch_res = [p \in ChProcs |-> "none"]

\* ensure_cache_path(parameter_cache_params_path(&id))?: create_dir_all on
\* the entry path; AlreadyExists is ignored, any other error ends the call,
\* with the directories made so far left behind
EnsureCachePath(p) ==
    /\ ch_ppc[p] = "ensure"
    /\ \/ /\ ch_dir' = "dir"
          /\ ch_entry' = CreateDirAll(ch_entry)
          /\ ch_ppc' = [ch_ppc EXCEPT ![p] = "read_open"]
          /\ UNCHANGED ch_res
       \/ /\ ch_dir' \in {ch_dir, "dir"}
          /\ ch_ppc' = [ch_ppc EXCEPT ![p] = "done"]
          /\ ch_res' = [ch_res EXCEPT ![p] = "err"]
          /\ UNCHANGED ch_entry
    /\ UNCHANGED <<ch_kind, ch_content, ch_holders>>
    /\ UNCHANGED ChOthers

\* with_exclusive_read_lock: ensure_parent(..)?;
\* OpenOptions::new().read(true).open(p)?  An entry that is there opens (a
\* directory opens for reading or not, as the platform has it); an error
\* of ensure_parent or of the open leads to .or_else(|_| write_cached..)
OpenExclusiveRead(p) ==
    /\ ch_ppc[p] = "read_open"
    /\ \/ /\ ch_entry # "absent"
          /\ ch_ppc' = [ch_ppc EXCEPT ![p] = "read_lock"]
       \/ ch_ppc' = [ch_ppc EXCEPT ![p] = "generate"]
    /\ UNCHANGED <<ch_kind, ch_dir, ch_entry, ch_content, ch_holders,
                   ch_res>>
    /\ UNCHANGED ChOthers

\* open_exclusive_read: f.lock_exclusive()? returns Ok
LockExclusiveRead(p) ==
    /\ ch_ppc[p] = "read_lock"
    /\ CanLockExclusive(ch_holders)
    /\ ch_holders' = ch_holders \cup {p}
    /\ ch_ppc' = [ch_ppc EXCEPT ![p] = "read"]
    /\ UNCHANGED <<ch_kind, ch_dir, ch_entry, ch_content, ch_res>>
    /\ UNCHANGED ChOthers

\* open_exclusive_read: f.lock_exclusive()? returns an error; the file is
\* closed without a lock, and the error leads to .or_else(..)
LockExclusiveReadFails(p) ==
    /\ ch_ppc[p] = "read_lock"
    /\ ch_ppc' = [ch_ppc EXCEPT ![p] = "generate"]
    /\ UNCHANGED <<ch_kind, ch_dir, ch_entry, ch_content, ch_holders,
                   ch_res>>
    /\ UNCHANGED ChOthers

\* Parameters::read(&mut f, false) / VerifyingKey::read /
\* serde_json::from_reader, then the drop of the LockedFile; an error
\* leads to .or_else(|_| write_cached_params(..)).  A directory that was
\* opened does not read
ReadCached(p) ==
    /\ ch_ppc[p] = "read"
    /\ ch_holders' = ch_holders \ {p}
    /\ \E ok \in (IF ch_entry = "file"
                  THEN ReadOutcomes(ch_kind, ch_content) ELSE {FALSE}) :
          IF ok
          THEN /\ ch_res' = [ch_res EXCEPT ![p] = "read"]
               /\ ch_ppc' = [ch_ppc EXCEPT ![p] = "done"]
          ELSE /\ ch_ppc' = [ch_ppc EXCEPT ![p] = "generate"]
               /\ UNCHANGED ch_res
    /\ UNCHANGED <<ch_kind, ch_dir, ch_entry, ch_content>>
    /\ UNCHANGED ChOthers

\* .or_else(|_| write_cached_params(&cache_path, generate()?)): generate
\* runs first, and its error returns from the call before the entry is
\* opened for writing; get_param_metadata passes cache_meta(pub_params),
\* which does not fail
Generate(p) ==
    /\ ch_ppc[p] = "generate"
    /\ \/ /\ ch_ppc' = [ch_ppc EXCEPT ![p] = "write_open"]
          /\ UNCHANGED ch_res
       \/ /\ ch_kind # "meta"
          /\ ch_ppc' = [ch_ppc EXCEPT ![p] = "done"]
          /\ ch_res' = [ch_res EXCEPT ![p] = "err"]
    /\ UNCHANGED <<ch_kind, ch_dir, ch_entry, ch_content, ch_holders>>
    /\ UNCHANGED ChOthers

\* with_exclusive_lock: ensure_parent(..)?;
\* OpenOptions::new().read(true).write(true).create(true).open(p)?
\* A new file is empty, an existing one keeps its bytes; a directory does
\* not open for writing, and an error of ensure_parent or of the open ends
\* the call with the entry as it was
OpenExclusive(p) ==
    /\ ch_ppc[p] = "write_open"
    /\ \/ /\ ch_entry # "dir"
          /\ ch_entry' = "file"
          /\ ch_content' = IF ch_entry = "absent" THEN <<>> ELSE ch_content
          /\ ch_ppc' = [ch_ppc EXCEPT ![p] = "write_lock"]
          /\ UNCHANGED ch_res
       \/ /\ ch_res' = [ch_res EXCEPT ![p] = "err"]
          /\ ch_ppc' = [ch_ppc EXCEPT ![p] = "done"]
          /\ UNCHANGED <<ch_entry, ch_content>>
    /\ UNCHANGED <<ch_kind, ch_dir, ch_holders>>
    /\ UNCHANGED ChOthers

\* open_exclusive: f.lock_exclusive()? returns Ok
LockExclusive(p) ==
    /\ ch_ppc[p] = "write_lock"
    /\ CanLockExclusive(ch_holders)
    /\ ch_holders' = ch_holders \cup {p}
    /\ ch_ppc' = [ch_ppc EXCEPT ![p] = "write"]
    /\ UNCHANGED <<ch_kind, ch_dir, ch_entry, ch_content, ch_res>>
    /\ UNCHANGED ChOthers

\* open_exclusive: f.lock_exclusive()? returns an error, which ends the
\* call; the file that was opened or created stays
LockExclusiveFails(p) ==
    /\ ch_ppc[p] = "write_lock"
    /\ ch_ppc' = [ch_ppc EXCEPT ![p] = "done"]
    /\ ch_res' = [ch_res EXCEPT ![p] = "err"]
    /\ UNCHANGED <<ch_kind, ch_dir, ch_entry, ch_content, ch_holders>>
    /\ UNCHANGED ChOthers

\* The bytes of the file once the first byte of the value is written
WrittenInPart(content) == Overwrite(content, <<CachedValue[1]>>)

\* The bytes of the file once the whole value is written
WrittenInFull(content) == Overwrite(content, CachedValue)

\* value.write(file) / serde_json::to_writer(file, &value): the first
\* byte reaches the file, or the first write fails, the file stays as it
\* is and the LockedFile is dropped
WriteCachedBegin(p) ==
    /\ ch_ppc[p] = "write"
    /\ \/ /\ ch_content' = WrittenInPart(ch_content)
          /\ ch_ppc' = [ch_ppc EXCEPT ![p] = "writing"]
          /\ UNCHANGED <<ch_holders, ch_res>>
       \/ /\ ch_holders' = ch_holders \ {p}
          /\ ch_ppc' = [ch_ppc EXCEPT ![p] = "done"]
          /\ ch_res' = [ch_res EXCEPT ![p] = "err"]
          /\ UNCHANGED ch_content
    /\ UNCHANGED <<ch_kind, ch_dir, ch_entry>>
    /\ UNCHANGED ChOthers

\* The write returns, Ok with the whole value in the file or with an I/O
\* error and the file as it is, and the LockedFile is dropped
WriteCachedEnd(p) ==
    /\ ch_ppc[p] = "writing"
    /\ ch_holders' = ch_holders \ {p}
    /\ ch_ppc' = [ch_ppc EXCEPT ![p] = "done"]
    /\ \/ /\ ch_content' = WrittenInFull(ch_content)
          /\ ch_res' = [ch_res EXCEPT ![p] = "written"]
       \/ /\ UNCHANGED ch_content
          /\ ch_res' = [ch_res EXCEPT ![p] = "err"]
    /\ UNCHANGED <<ch_kind, ch_dir, ch_entry>>
    /\ UNCHANGED ChOthers

ChNext ==
    \E p \in ChProcs :
       \/ EnsureCachePath(p)
       \/ OpenExclusiveRead(p)
       \/ LockExclusiveRead(p)
       \/ LockExclusiveReadFails(p)
       \/ ReadCached(p)
       \/ Generate(p)
       \/ OpenExclusive(p)
       \/ LockExclusive(p)
       \/ LockExclusiveFails(p)
       \/ WriteCachedBegin(p)
       \/ WriteCachedEnd(p)

ChSpec == ChInit /\ [][ChNext]_vars

ChReading(p) == ch_ppc[p] = "read"

ChWriting(p) == ch_ppc[p] \in {"write", "writing"}

\* The holders of the lock are the processes between their lock step and
\* the drop of their LockedFile; no process holds the lock as a writer
\* while another holds any lock, and no reader is at its read while a
\* writer is at work on the file
ChWriterExcludes ==
    /\ \A p \in ChProcs :
          (p \in ch_holders) <=> (ChReading(p) \/ ChWriting(p))
    /\ \A p, q \in ChProcs :
          (p # q /\ ChWriting(p)) => q \notin ch_holders
    /\ \A p, q \in ChProcs :
          ChReading(p) => ch_ppc[q] # "writing"

(***************************************************************************)
(* C34.  The parameter cache is read-shared and write-exclusive: two       *)
(* concurrent readers of the same cached parameter / verifying-key /       *)
(* metadata file may hold their locks at the same time, while a writer     *)
(* excludes every other reader and writer, so a successful read never      *)
(* observes a file while it is being written.                              *)
(***************************************************************************)
C34_ReadSharedWriteExclusive ==
    /\ \A p, q \in ChProcs :
          (p # q /\ ChReading(p) /\ ch_ppc[q] = "read_lock")
             => ENABLED LockExclusiveRead(q)
    /\ ChWriterExcludes

\* Readers take the exclusive lock as well: at most one process, reader or
\* writer, holds the lock of the file, a reader waits for another reader,
\* and a successful read never observes a file while it is being written
C34_ExclusiveForAll ==
    /\ Cardinality(ch_holders) <= 1
    /\ \A p, q \in ChProcs :
          (p # q /\ ChReading(p) /\ ch_ppc[q] = "read_lock")
             => ~ENABLED LockExclusiveRead(q)
    /\ ChWriterExcludes

\* A reader holds the lock of the entry's file while another reader waits
\* for it
C34_Witness ==
    \E p, q \in ChProcs :
       /\ p # q
       /\ ChReading(p)
       /\ p \in ch_holders
       /\ ch_ppc[q] = "read_lock"
       /\ ch_entry = "file"

(***************************************************************************)
(* C38.  ensure_cache_path creates only the ancestor directories of a      *)
(* cache entry path: after it returns Ok for the path of a .params / .vk / *)
(* .meta entry, that path itself is not a directory, so get_groth_params / *)
(* get_verifying_key / get_param_metadata can afterwards create and write  *)
(* the entry as a regular file when it is not cached yet.                  *)
(***************************************************************************)
C38_EntryPathNotADirectory ==
    \A p \in ChProcs :
       ch_ppc[p] \notin {"ensure", "done"} =>
          /\ ch_dir = "dir"
          /\ ch_entry # "dir"

====
